---- MODULE Spec2Model ----
(***************************************************************************)
(* Model of the task router of sst-tts-translator                           *)
(* (src/src/sst_tts_translator/llm/router.py): LLMRouter.route_task, its    *)
(* swarm pipeline _process_with_swarm, Agent.process and the generation     *)
(* clients, stepped at the suspension points of the async generators.       *)
(*                                                                         *)
(* A text is a sequence of tokens.  A token is either a literal piece of    *)
(* text, [lit |-> s], or a piece of a reply produced by a backend,          *)
(* [by |-> backend, to |-> prompt, part |-> i]: the i-th piece of what the  *)
(* backend answers to that prompt.  Concatenation of texts is \o and        *)
(* "".join(list) is Join.                                                   *)
(***************************************************************************)
EXTENDS Integers, Sequences, FiniteSets, TLC

\* ------------------------------------------------------------------ bounds
\* Longest reply (in tokens) a backend gives to one prompt.
MaxReply == 2

\* ------------------------------------------------------------- enumerations
\* LLMProvider
OPENAI == "openai"
ANTHROPIC == "anthropic"
LLMProvider == {OPENAI, ANTHROPIC}

\* AgentRole
ARCHITECT == "architect"
DEVELOPER == "developer"
REVIEWER == "reviewer"
TESTER == "tester"
AgentRole == {ARCHITECT, DEVELOPER, REVIEWER, TESTER}

\* Python's None as a provider argument
None == "None"

\* No call, no generate call, no exception
Nil == [nil |-> TRUE]

\* ------------------------------------------------------------------- texts
Lit(s) == [lit |-> s]

RECURSIVE Join(_)
\* "".join(parts)
Join(parts) == IF parts = <<>> THEN <<>> ELSE Head(parts) \o Join(Tail(parts))

Range(s) == {s[i] : i \in DOMAIN s}

\* The inputs a caller passes to route_task.
Prompts == {<<Lit("x")>>, <<Lit("write a function")>>}
TaskTypes == {"code_generation", "code_review", "testing",
              "Code_Generation", " testing", "code", "", "documentation"}
ProviderArgs == LLMProvider \cup {None}

\* --------------------------------------------------------------- variables
VARIABLES
    default_provider,  \* LLMRouter.default_provider
    clients,           \* LLMRouter.clients: provider -> client
    agents,            \* LLMRouter.agents: role -> agent (never filled)
    replyLen,          \* environment: length of each backend's replies
    pc,                \* position of the route_task call in progress
    call,              \* arguments of the route_task call in progress
    roles,             \* _process_with_swarm: roles
    swarm,             \* _process_with_swarm: swarm (role -> agent)
    stage,             \* index in roles of the agent being run
    current_output,    \* _process_with_swarm: current_output
    agent_output,      \* _process_with_swarm: agent_output
    gen,               \* the client.generate call in progress
    chunks,            \* fragments that generate call has yet to yield
    received,          \* fragments route_task has yielded to its caller
    error,             \* exception that reached the caller, or Nil
    events,            \* history of generation calls and their fragments
    returned,          \* outcome of the last direct get_client or
                       \* create_agent_swarm call, or Nil
    agent_call,        \* the last direct Agent.process call, or Nil
    conc,              \* concurrent route_task calls: caller -> position,
                       \* arguments, generate call, fragments, error
    frames,            \* concurrent route_task calls: frame -> the locals
                       \* of _process_with_swarm
    _max_sessions,     \* SessionManager._max_sessions
    _sessions,         \* SessionManager._sessions, in insertion order
    issued,            \* number of session ids issued so far
    deleted,           \* has delete_session removed a session
    session_call,      \* the last SessionManager call and what it returned
    vo,                \* the ValueObject handed to the scaffold generator
    code,              \* the lines the generator returned for it, or Nil
    stt,               \* /ws/transcribe: the configured stt_provider
    ws_pc,             \* /ws/transcribe: position of the handler
    connected,         \* is the client still connected
    audio_ended,       \* has audio_stream() ended
    buffer,            \* audio chunks the provider has taken, in order
    transcripts,       \* DeepgramSTT.transcribe_stream: transcripts
    outbox,            \* texts transcribe_stream has yet to yield
    messages,          \* messages sent to the client, in order
    failure,           \* exception the handler has caught, or Nil
    escaped,           \* exception that left the handler, or Nil
    closes,            \* number of websocket.close() attempts
    repo_exists,       \* GitManager: does repo_path name a directory
    git_pc,            \* GitManager: position of the call in progress
    git_call,          \* GitManager: the call in progress, or Nil
    git_runs,          \* git commands run so far, each with its outcome
    git_result,        \* what the call returned, or Nil
    git_raised,        \* exception the call raised, or Nil
    factory_call,      \* the provider factory call made, or Nil
    factory_result,    \* what that call returned or raised, or Nil
    _model,            \* WhisperSTT._model: the loaded model, or Nil
    loads,             \* completed whisper.load_model calls of the instance
    whisper_tasks,     \* per task: the call it makes and where it stands
    whisper_calls      \* calls started on the instance

\* The variables of the router and of the route_task call in progress.
routerState == <<default_provider, clients, agents, replyLen, pc, call, roles,
                 swarm, stage, current_output, agent_output, gen, chunks,
                 received, error, events, returned>>

\* The variables of the other components, which no router step touches.
sessionVars == <<_max_sessions, _sessions, issued, deleted, session_call>>

\* The scaffold generator.
genVars == <<vo, code>>

\* The components outside the router, its agents and the session manager.
\* The /ws/transcribe handler and the speech-to-text provider it drives.
wsVars == <<stt, ws_pc, connected, audio_ended, buffer, transcripts, outbox,
            messages, failure, escaped, closes>>

\* The git manager.
gitVars == <<repo_exists, git_pc, git_call, git_runs, git_result, git_raised>>

\* The provider factories.
factoryVars == <<factory_call, factory_result>>

\* One WhisperSTT instance and the tasks calling it.
whisperVars == <<_model, loads, whisper_tasks, whisper_calls>>

laterVars == <<genVars, wsVars, gitVars, factoryVars, whisperVars>>

\* The later components but the Whisper provider.
notWhisper == <<genVars, wsVars, gitVars, factoryVars>>

\* The later components but the provider factories.
notFactory == <<genVars, wsVars, gitVars, whisperVars>>

\* The later components but the git manager.
notGit == <<genVars, wsVars, factoryVars, whisperVars>>

\* The later components but the scaffold generator.
notGen == <<wsVars, gitVars, factoryVars, whisperVars>>

\* The later components but the websocket handler.
notWs == <<genVars, gitVars, factoryVars, whisperVars>>

\* Router, agents and session manager together.
coreVars == <<routerState, agent_call, conc, frames, sessionVars>>

otherVars == <<agent_call, conc, frames, sessionVars, laterVars>>

vars == <<routerState, otherVars>>

routerVars == <<default_provider, clients, agents, replyLen>>

\* ----------------------------------------------------------------- clients
\* OpenAIClient / AnthropicClient objects, one per configured backend.
OpenAIClient == [backend |-> OPENAI, name |-> "OpenAI"]
AnthropicClient == [backend |-> ANTHROPIC, name |-> "Anthropic"]

\* What the remote backend behind client c answers to prompt p.
Reply(c, p) == [i \in 1..replyLen[c.backend] |-> [by |-> c.backend, to |-> p, part |-> i]]

RECURSIVE Pieces(_, _, _)
\* t cut after each position of S, from position from on.
Pieces(t, S, from) ==
    IF from > Len(t) THEN <<>>
    ELSE LET k == CHOOSE k \in from..Len(t) :
                      /\ k \in S \/ k = Len(t)
                      /\ \A j \in from..(k - 1) : j \notin S
         IN <<SubSeq(t, from, k)>> \o Pieces(t, S, k + 1)

\* LLMClient.generate: the fragment sequences a generate call can yield for a
\* full response t.  Not streamed: the full response as one fragment.
\* Streamed: the response delivered in non-empty pieces.
Fragmentations(t, stream) ==
    IF stream THEN {Pieces(t, S, 1) : S \in SUBSET (1..(Len(t) - 1))}
    ELSE {<<t>>}

\* The exceptions a remote call can end with.
RemoteErrors == {"timeout", "authentication"}

\* except Exception as e: raise RuntimeError(f"<name> generation error: {e}")
\* The message names the backend and holds str(e); raised inside the except
\* block without "from e", so e is the implicit __context__ of the error.
GenerationError(c, e) ==
    [type |-> "RuntimeError", generation |-> c.name, cause |-> e,
     __context__ |-> e]

\* ------------------------------------------------------------------- agent
\* Agent._default_system_prompt
_default_system_prompt(role) ==
    CASE role = ARCHITECT -> <<Lit("You are a software architect. Design system architecture, choose appropriate patterns, and plan component structure.")>>
      [] role = DEVELOPER -> <<Lit("You are a software developer. Implement clean, maintainable code following best practices and the provided architecture.")>>
      [] role = REVIEWER -> <<Lit("You are a code reviewer. Review code for quality, correctness, security issues, and suggest improvements.")>>
      [] role = TESTER -> <<Lit("You are a QA engineer. Write comprehensive tests, identify edge cases, and ensure code quality through testing.")>>
      [] OTHER -> <<Lit("You are a helpful AI assistant.")>>

\* Agent.__init__ without a system_prompt override
Agent(role, llm_client) ==
    [role |-> role, llm_client |-> llm_client,
     system_prompt |-> _default_system_prompt(role)]

RECURSIVE context_str(_)
\* "\n".join([f"{k}: {v}" for k, v in context.items()]); context is the
\* sequence of the mapping's <<key, value>> items in iteration order.
context_str(context) ==
    IF context = <<>> THEN <<>>
    ELSE <<Lit(context[1][1]), Lit(": "), Lit(context[1][2])>>
         \o (IF Len(context) > 1 THEN <<Lit("\n")>> ELSE <<>>)
         \o context_str(Tail(context))

\* full_prompt with the context block added whenever a context is passed,
\* empty or not.
full_prompt_AlwaysContext(agent, task, context) ==
    agent.system_prompt \o <<Lit("\n\n")>> \o task
    \o <<Lit("\n\nContext:\n")>> \o context_str(context)

\* Agent.process: the prompt handed to the agent's client.
full_prompt(agent, task, context) ==
    LET base == agent.system_prompt \o <<Lit("\n\n")>> \o task
    IN IF context # <<>>
       THEN base \o <<Lit("\n\nContext:\n")>> \o context_str(context)
       ELSE base

\* ------------------------------------------------------------------ router
\* get_client that falls back to the default provider's client when the
\* requested provider has none.
get_client_Fallback(provider) ==
    LET p == IF provider # None THEN provider ELSE default_provider
        q == IF p \in DOMAIN clients THEN p ELSE default_provider
    IN IF q \notin DOMAIN clients
       THEN [ok |-> FALSE, error |-> [type |-> "ValueError", provider |-> p]]
       ELSE [ok |-> TRUE, client |-> clients[q]]

\* LLMRouter.get_client
get_client(provider) ==
    LET p == IF provider # None THEN provider ELSE default_provider
    IN IF p \notin DOMAIN clients
       THEN [ok |-> FALSE, error |-> [type |-> "ValueError", provider |-> p]]
       ELSE [ok |-> TRUE, client |-> clients[p]]

\* LLMRouter.create_agent_swarm
create_agent_swarm(rs, provider) ==
    LET r == get_client(provider)
    IN IF r.ok
       THEN [ok |-> TRUE, swarm |-> [role \in Range(rs) |-> Agent(role, r.client)]]
       ELSE r

\* RolesFor with the task type normalised (case folded, blanks stripped)
\* before it is compared.
RolesFor_Normalised(task_type) ==
    IF task_type \in {"code_generation", "Code_Generation"} THEN <<ARCHITECT, DEVELOPER>>
    ELSE IF task_type = "code_review" THEN <<REVIEWER>>
    ELSE IF task_type \in {"testing", " testing"} THEN <<TESTER>>
    ELSE <<DEVELOPER>>

\* _process_with_swarm: the role sequence of a task type
RolesFor(task_type) ==
    IF task_type = "code_generation" THEN <<ARCHITECT, DEVELOPER>>
    ELSE IF task_type = "code_review" THEN <<REVIEWER>>
    ELSE IF task_type = "testing" THEN <<TESTER>>
    ELSE <<DEVELOPER>>

\* get_client that keeps the provider it resolved as the new default.
default_provider_after_Sticky(provider) ==
    IF provider # None THEN provider ELSE default_provider

\* get_client: provider = provider or self.default_provider rebinds the
\* local name only; self.default_provider is what it was.
default_provider_after(provider) == default_provider

\* _process_with_swarm calls self.create_agent_swarm(roles): no provider.
SwarmProvider(provider) == None

\* NextTask that keeps the caller's prompt in front of the stage's output.
NextTask_KeepsPrompt(prompt, output) == prompt \o <<Lit("\n\n")>> \o output

\* NextTask that hands every stage the caller's prompt.
NextTask_OriginalPrompt(prompt, output) == prompt

\* current_output = "".join(agent_output); agent.process(current_output, ...):
\* the task text handed to the agent of the next stage.
NextTask(prompt, output) == output

\* HasNext that leaves the loop one role early.
HasNext_OffByOne(st, rs) == st + 1 < Len(rs)

\* for role in roles: is there a role after the one at index st
HasNext(st, rs) == st < Len(rs)

\* Forwarded that yields every chunk whatever the stream flag.
Forwarded_Always(stream) == TRUE

\* Forwarded that buffers every chunk whatever the stream flag.
Forwarded_Never(stream) == FALSE

\* Forwarded that yields the chunks of a buffered call and buffers those of a
\* streamed one.
Forwarded_Inverted(stream) == ~stream

\* if stream: yield chunk
Forwarded(stream) == stream

\* Resumable for a producer that keeps running after its consumer has left.
Resumable_Eager(p) == p \in {"streaming", "abandoned"}

\* The body of an async generator suspended at a yield runs on only when its
\* consumer asks for the next item.
Resumable(p) == p = "streaming"

\* ------------------------------------------------------------------ events
GenerateEvent(st, role, g) ==
    [kind |-> "generate", stage |-> st, role |-> role, client |-> g.client,
     prompt |-> g.prompt, stream |-> g.stream]
ChunkEvent(st, chunk) == [kind |-> "chunk", stage |-> st, chunk |-> chunk]
EndEvent(st) == [kind |-> "end", stage |-> st]
RaiseEvent(st, e) == [kind |-> "raise", stage |-> st, error |-> e]
RemoteErrorEvent(st, e) == [kind |-> "remote_error", stage |-> st, cause |-> e]

\* -------------------------------------------------------------------- Init
\* No direct Agent.process call has been made.
AgentOff == agent_call = Nil

\* No concurrent callers.
ConcOff == conc = <<>> /\ frames = <<>>

\* No session manager.
SessionOff ==
    /\ _max_sessions = 0
    /\ _sessions = <<>>
    /\ issued = 0
    /\ deleted = FALSE
    /\ session_call = Nil

\* No scaffold generator call.
GenOff ==
    /\ vo = Nil
    /\ code = Nil

\* No websocket connection.
WsOff ==
    /\ stt = "whisper"
    /\ ws_pc = "returned"
    /\ connected = FALSE
    /\ audio_ended = FALSE
    /\ buffer = <<>>
    /\ transcripts = <<>>
    /\ outbox = <<>>
    /\ messages = <<>>
    /\ failure = Nil
    /\ escaped = Nil
    /\ closes = 0

\* No git manager.
GitOff ==
    /\ repo_exists = FALSE
    /\ git_pc = "idle"
    /\ git_call = Nil
    /\ git_runs = <<>>
    /\ git_result = Nil
    /\ git_raised = Nil

\* No provider factory call.
FactoryOff ==
    /\ factory_call = Nil
    /\ factory_result = Nil

\* No WhisperSTT instance in use.
WhisperOff ==
    /\ _model = Nil
    /\ loads = 0
    /\ whisper_tasks = <<>>
    /\ whisper_calls = 0

LaterOff == GenOff /\ WsOff /\ GitOff /\ FactoryOff /\ WhisperOff

\* LLMRouter.__init__: a client per backend whose api key is given.
Init ==
    /\ AgentOff
    /\ ConcOff
    /\ SessionOff
    /\ LaterOff
    /\ default_provider \in LLMProvider
    /\ \E openai_api_key \in BOOLEAN, anthropic_api_key \in BOOLEAN :
         clients = [p \in (IF openai_api_key THEN {OPENAI} ELSE {})
                          \cup (IF anthropic_api_key THEN {ANTHROPIC} ELSE {})
                    |-> IF p = OPENAI THEN OpenAIClient ELSE AnthropicClient]
    /\ agents = <<>>
    /\ replyLen \in [LLMProvider -> 0..MaxReply]
    /\ pc = "idle"
    /\ call = Nil
    /\ roles = <<>>
    /\ swarm = <<>>
    /\ stage = 0
    /\ current_output = <<>>
    /\ agent_output = <<>>
    /\ gen = Nil
    /\ chunks = <<>>
    /\ received = <<>>
    /\ error = Nil
    /\ events = <<>>
    /\ returned = Nil

\* ----------------------------------------------------------------- actions
\* A caller starts iterating route_task(prompt, task_type, use_swarm,
\* provider, stream); the call runs up to its first suspension point, the
\* remote call of the first client.generate.
RouteTask(prompt, task_type, use_swarm, provider, stream) ==
    /\ pc = "idle"
    /\ call' = [prompt |-> prompt, task_type |-> task_type,
                use_swarm |-> use_swarm, provider |-> provider,
                stream |-> stream]
    /\ received' = <<>>
    /\ agent_output' = <<>>
    /\ chunks' = <<>>
    /\ IF use_swarm
       THEN LET rs == RolesFor(task_type)
                r == create_agent_swarm(rs, SwarmProvider(provider))
            IN /\ roles' = rs
               /\ IF r.ok
                  THEN LET agent == r.swarm[rs[1]]
                           g == [client |-> agent.llm_client,
                                 prompt |-> full_prompt(agent, prompt, <<>>),
                                 stream |-> stream, attempts |-> 1]
                       IN /\ swarm' = r.swarm
                          /\ stage' = 1
                          /\ current_output' = prompt
                          /\ gen' = g
                          /\ pc' = "remote"
                          /\ error' = Nil
                          /\ events' = <<GenerateEvent(1, rs[1], g)>>
                  ELSE /\ swarm' = <<>>
                       /\ stage' = 0
                       /\ current_output' = <<>>
                       /\ gen' = Nil
                       /\ pc' = "raised"
                       /\ error' = r.error
                       /\ events' = <<RaiseEvent(0, r.error)>>
       ELSE LET r == get_client(provider)
            IN /\ roles' = <<>>
               /\ swarm' = <<>>
               /\ stage' = 0
               /\ current_output' = <<>>
               /\ IF r.ok
                  THEN LET g == [client |-> r.client, prompt |-> prompt,
                                 stream |-> stream, attempts |-> 1]
                       IN /\ gen' = g
                          /\ pc' = "remote"
                          /\ error' = Nil
                          /\ events' = <<GenerateEvent(0, None, g)>>
                  ELSE /\ gen' = Nil
                       /\ pc' = "raised"
                       /\ error' = r.error
                       /\ events' = <<RaiseEvent(0, r.error)>>
    /\ default_provider' = default_provider_after(
                               IF use_swarm THEN SwarmProvider(provider)
                               ELSE provider)
    /\ returned' = Nil
    /\ UNCHANGED <<clients, agents, replyLen, otherVars>>

\* The remote call of the generate call in progress returns a response.
RemoteReturn ==
    /\ pc = "remote"
    /\ chunks' \in Fragmentations(Reply(gen.client, gen.prompt), gen.stream)
    /\ pc' = "streaming"
    /\ UNCHANGED <<routerVars, call, roles, swarm, stage, current_output,
                   agent_output, gen, received, error, events, returned,
                   otherVars>>

\* GenerateFails with the failure caught by the router, which goes on as if
\* the stage had ended there.
GenerateFails_Swallowed ==
    /\ \/ pc = "remote"
       \/ pc = "streaming" /\ gen.stream
    /\ pc' = "streaming"
    /\ chunks' = <<>>
    /\ \E e \in RemoteErrors :
         events' = events \o <<RemoteErrorEvent(stage, e),
                               RaiseEvent(stage, GenerationError(gen.client, e))>>
    /\ UNCHANGED <<routerVars, call, roles, swarm, stage, current_output,
                   agent_output, gen, received, error, returned, otherVars>>

\* GenerateFails with a failed remote call made once more before giving up.
GenerateFails_Retry ==
    /\ \/ pc = "remote"
       \/ Resumable(pc) /\ gen.stream
    /\ \E e \in RemoteErrors :
         IF pc = "remote" /\ gen.attempts < 2
         THEN /\ gen' = [gen EXCEPT !.attempts = @ + 1]
              /\ UNCHANGED <<pc, error, events>>
         ELSE /\ pc' = "raised"
              /\ error' = GenerationError(gen.client, e)
              /\ events' = events \o <<RemoteErrorEvent(stage, e),
                                 RaiseEvent(stage, GenerationError(gen.client, e))>>
              /\ gen' = gen
    /\ UNCHANGED <<routerVars, call, roles, swarm, stage, current_output,
                   agent_output, chunks, received, returned, otherVars>>

\* The remote call of the generate call in progress fails, or a streamed
\* response breaks off: the client raises and nothing catches it.
GenerateFails ==
    /\ \/ pc = "remote"
       \/ Resumable(pc) /\ gen.stream
    /\ pc' = "raised"
    /\ \E e \in RemoteErrors :
         /\ error' = GenerationError(gen.client, e)
         /\ events' = events \o <<RemoteErrorEvent(stage, e),
                               RaiseEvent(stage, GenerationError(gen.client, e))>>
    /\ UNCHANGED <<routerVars, call, roles, swarm, stage, current_output,
                   agent_output, gen, chunks, received, returned, otherVars>>

\* The generate call in progress yields its next fragment, up to the caller
\* when the router forwards it.
ClientYield ==
    /\ Resumable(pc)
    /\ chunks # <<>>
    /\ LET chunk == Head(chunks)
       IN /\ chunks' = Tail(chunks)
          /\ events' = Append(events, ChunkEvent(stage, chunk))
          /\ IF call.use_swarm
             THEN /\ agent_output' = Append(agent_output, chunk)
                  /\ received' = IF Forwarded(call.stream)
                                 THEN Append(received, chunk)
                                 ELSE received
             ELSE /\ agent_output' = agent_output
                  /\ received' = Append(received, chunk)
    /\ UNCHANGED <<routerVars, pc, call, roles, swarm, stage, current_output,
                   gen, error, returned, otherVars>>

\* The generate call in progress is exhausted: a non-swarm call ends; a swarm
\* call joins the stage's output and runs the next agent on it, or ends
\* after the last one.
ClientExhausted ==
    /\ Resumable(pc)
    /\ chunks = <<>>
    /\ IF ~call.use_swarm
       THEN /\ pc' = "done"
            /\ events' = Append(events, EndEvent(stage))
            /\ UNCHANGED <<stage, current_output, agent_output, gen, received>>
       ELSE LET out == Join(agent_output)
            IN /\ current_output' = out
               /\ IF HasNext(stage, roles)
                  THEN LET agent == swarm[roles[stage + 1]]
                           g == [client |-> agent.llm_client,
                                 prompt |-> full_prompt(agent,
                                              NextTask(call.prompt, out), <<>>),
                                 stream |-> call.stream, attempts |-> 1]
                       IN /\ stage' = stage + 1
                          /\ agent_output' = <<>>
                          /\ gen' = g
                          /\ pc' = "remote"
                          /\ received' = received
                          /\ events' = events \o <<EndEvent(stage),
                                          GenerateEvent(stage + 1, roles[stage + 1], g)>>
                  ELSE /\ pc' = "done"
                       /\ received' = IF ~call.stream
                                      THEN Append(received, out)
                                      ELSE received
                       /\ events' = Append(events, EndEvent(stage))
                       /\ UNCHANGED <<stage, agent_output, gen>>
    /\ UNCHANGED <<routerVars, call, roles, swarm, chunks, error, returned,
                   otherVars>>

\* The caller, holding the fragment it was just handed, stops iterating
\* before the generator is exhausted.
Abandon ==
    /\ pc = "streaming"
    /\ events # <<>>
    /\ events[Len(events)].kind = "chunk"
    /\ ~call.use_swarm \/ call.stream
    /\ pc' = "abandoned"
    /\ UNCHANGED <<routerVars, call, roles, swarm, stage, current_output,
                   agent_output, gen, chunks, received, error, events,
                   returned, otherVars>>

\* A direct call of get_client(provider).
GetClient(provider) ==
    /\ pc = "idle"
    /\ returned' = [op |-> "get_client", provider |-> provider,
                    result |-> get_client(provider)]
    /\ default_provider' = default_provider_after(provider)
    /\ UNCHANGED <<clients, agents, replyLen, pc, call, roles, swarm, stage,
                   current_output, agent_output, gen, chunks, received, error,
                   events, otherVars>>

\* A direct call of create_agent_swarm(rs, provider).
CreateAgentSwarm(rs, provider) ==
    /\ pc = "idle"
    /\ returned' = [op |-> "create_agent_swarm", roles |-> rs,
                    provider |-> provider,
                    result |-> create_agent_swarm(rs, provider)]
    /\ default_provider' = default_provider_after(provider)
    /\ UNCHANGED <<clients, agents, replyLen, pc, call, roles, swarm, stage,
                   current_output, agent_output, gen, chunks, received, error,
                   events, otherVars>>

\* The caller's iteration is over (exhausted, abandoned, or ended by the
\* exception): the generator and its locals are gone and the router is idle
\* again.
Return ==
    /\ pc \in {"done", "raised", "abandoned"}
    /\ pc' = "idle"
    /\ call' = Nil
    /\ roles' = <<>>
    /\ swarm' = <<>>
    /\ stage' = 0
    /\ current_output' = <<>>
    /\ agent_output' = <<>>
    /\ gen' = Nil
    /\ chunks' = <<>>
    /\ received' = <<>>
    /\ error' = Nil
    /\ events' = <<>>
    /\ UNCHANGED <<routerVars, returned, otherVars>>

\* The role lists handed to create_agent_swarm directly.
RoleLists == {<<>>, <<TESTER>>, <<ARCHITECT, DEVELOPER>>}

Next ==
    \/ \E prompt \in Prompts, task_type \in TaskTypes, use_swarm \in BOOLEAN,
          provider \in ProviderArgs, stream \in BOOLEAN :
          RouteTask(prompt, task_type, use_swarm, provider, stream)
    \/ RemoteReturn
    \/ GenerateFails
    \/ ClientYield
    \/ ClientExhausted
    \/ Abandon
    \/ \E provider \in ProviderArgs : GetClient(provider)
    \/ \E rs \in RoleLists, provider \in ProviderArgs :
          CreateAgentSwarm(rs, provider)
    \/ Return

Spec == Init /\ [][Next]_vars

\* ------------------------------------------------- Agent.process, directly
\* Most entries of a context mapping.
MaxContext == 2

ContextKeys == {"language", "project", "framework"}
ContextValues == {"python", "test"}

\* The items of a context mapping in iteration order: distinct keys.
ContextItems ==
    UNION {{c \in [1..n -> ContextKeys \X ContextValues] :
               \A i, j \in 1..n : i # j => c[i][1] # c[j][1]} :
           n \in 0..MaxContext}

\* The context argument of Agent.process: None, or a mapping.
ContextArgs == {[given |-> FALSE, items |-> <<>>]}
               \cup {[given |-> TRUE, items |-> c] : c \in ContextItems}

\* A router on which nothing is configured and nothing runs.
RouterOff ==
    /\ default_provider = OPENAI
    /\ clients = <<>>
    /\ agents = <<>>
    /\ replyLen = [p \in LLMProvider |-> 0]
    /\ pc = "idle"
    /\ call = Nil
    /\ roles = <<>>
    /\ swarm = <<>>
    /\ stage = 0
    /\ current_output = <<>>
    /\ agent_output = <<>>
    /\ gen = Nil
    /\ chunks = <<>>
    /\ received = <<>>
    /\ error = Nil
    /\ events = <<>>
    /\ returned = Nil

AgentInit == RouterOff /\ AgentOff /\ ConcOff /\ SessionOff /\ LaterOff

\* Agent(role, client).process(task, context, stream) is iterated: the
\* prompt it assembles is handed to client.generate with the stream flag.
AgentProcess(role, client, task, context, stream) ==
    /\ agent_call = Nil
    /\ agent_call' =
         [role |-> role, task |-> task, context |-> context,
          stream |-> stream, client |-> client,
          sent |-> [prompt |-> full_prompt(Agent(role, client), task,
                                           IF context.given THEN context.items
                                           ELSE <<>>),
                    stream |-> stream]]
    /\ UNCHANGED <<routerState, conc, frames, sessionVars, laterVars>>

\* The iteration of that call is over.
AgentDone ==
    /\ agent_call # Nil
    /\ agent_call' = Nil
    /\ UNCHANGED <<routerState, conc, frames, sessionVars, laterVars>>

AgentNext ==
    \/ \E role \in AgentRole, client \in {OpenAIClient, AnthropicClient},
          task \in Prompts, context \in ContextArgs, stream \in BOOLEAN :
          AgentProcess(role, client, task, context, stream)
    \/ AgentDone

AgentSpec == AgentInit /\ [][AgentNext]_vars

\* ------------------------------------- concurrent calls on a shared router
\* The callers that iterate route_task on the one router at the same time,
\* interleaved at the suspension points.
Callers == {1, 2}

\* What caller k asks for.
PromptOf(k) == IF k = 1 THEN <<Lit("x")>> ELSE <<Lit("write a function")>>
ConcTaskTypes == {"code_generation", "testing"}

\* Slot for locals kept on the shared router instead of in the call.
Slot_Shared(k) == 1

\* roles, swarm, current_output, agent_output and the loop position are
\* locals of the _process_with_swarm generator: each call has its own frame.
Slot(k) == k

NoFrame == [roles |-> <<>>, swarm |-> <<>>, stage |-> 0,
            current_output |-> <<>>, agent_output |-> <<>>]

ConcInit ==
    /\ default_provider = OPENAI
    /\ clients = [p \in LLMProvider |->
                    IF p = OPENAI THEN OpenAIClient ELSE AnthropicClient]
    /\ agents = <<>>
    /\ replyLen \in {[p \in LLMProvider |-> n] : n \in 1..MaxReply}
    /\ pc = "idle"
    /\ call = Nil
    /\ roles = <<>>
    /\ swarm = <<>>
    /\ stage = 0
    /\ current_output = <<>>
    /\ agent_output = <<>>
    /\ gen = Nil
    /\ chunks = <<>>
    /\ received = <<>>
    /\ error = Nil
    /\ events = <<>>
    /\ returned = Nil
    /\ AgentOff
    /\ SessionOff
    /\ LaterOff
    /\ conc = [k \in Callers |->
                 [pc |-> "idle", call |-> Nil, gen |-> Nil, chunks |-> <<>>,
                  received |-> <<>>, error |-> Nil]]
    /\ frames = [k \in Callers |-> NoFrame]

\* Caller k starts iterating route_task(PromptOf(k), task_type, use_swarm,
\* None, stream) up to the remote call of the first generate.
ConcRouteTask(k, task_type, use_swarm, stream) ==
    /\ conc[k].pc = "idle"
    /\ LET prompt == PromptOf(k)
           args == [prompt |-> prompt, task_type |-> task_type,
                    use_swarm |-> use_swarm, provider |-> None,
                    stream |-> stream]
       IN IF use_swarm
          THEN LET rs == RolesFor(task_type)
                   r == create_agent_swarm(rs, SwarmProvider(None))
                   agent == r.swarm[rs[1]]
                   g == [client |-> agent.llm_client,
                         prompt |-> full_prompt(agent, prompt, <<>>),
                         stream |-> stream, attempts |-> 1]
               IN /\ frames' = [frames EXCEPT ![Slot(k)] =
                                   [roles |-> rs, swarm |-> r.swarm, stage |-> 1,
                                    current_output |-> prompt,
                                    agent_output |-> <<>>]]
                  /\ conc' = [conc EXCEPT ![k] =
                                 [pc |-> "remote", call |-> args, gen |-> g,
                                  chunks |-> <<>>, received |-> <<>>,
                                  error |-> Nil]]
          ELSE LET r == get_client(None)
                   g == [client |-> r.client, prompt |-> prompt,
                         stream |-> stream, attempts |-> 1]
               IN /\ frames' = frames
                  /\ conc' = [conc EXCEPT ![k] =
                                 [pc |-> "remote", call |-> args, gen |-> g,
                                  chunks |-> <<>>, received |-> <<>>,
                                  error |-> Nil]]
    /\ UNCHANGED <<routerState, agent_call, sessionVars, laterVars>>

\* The remote call of caller k's generate call returns a response.
ConcRemoteReturn(k) ==
    /\ conc[k].pc = "remote"
    /\ \E f \in Fragmentations(Reply(conc[k].gen.client, conc[k].gen.prompt),
                                conc[k].gen.stream) :
         conc' = [conc EXCEPT ![k].pc = "streaming", ![k].chunks = f]
    /\ UNCHANGED <<routerState, agent_call, frames, sessionVars, laterVars>>

\* The remote call of caller k's generate call fails, or its streamed
\* response breaks off.
ConcGenerateFails(k) ==
    /\ \/ conc[k].pc = "remote"
       \/ conc[k].pc = "streaming" /\ conc[k].gen.stream
    /\ \E e \in RemoteErrors :
         conc' = [conc EXCEPT ![k].pc = "raised",
                              ![k].error = GenerationError(conc[k].gen.client, e)]
    /\ UNCHANGED <<routerState, agent_call, frames, sessionVars, laterVars>>

\* Caller k's generate call yields its next fragment.
ConcClientYield(k) ==
    /\ conc[k].pc = "streaming"
    /\ conc[k].chunks # <<>>
    /\ LET chunk == Head(conc[k].chunks)
       IN IF conc[k].call.use_swarm
          THEN /\ frames' = [frames EXCEPT ![Slot(k)].agent_output =
                                              Append(@, chunk)]
               /\ conc' = [conc EXCEPT
                             ![k].chunks = Tail(@),
                             ![k].received =
                                 IF Forwarded(conc[k].call.stream)
                                 THEN Append(@, chunk) ELSE @]
          ELSE /\ frames' = frames
               /\ conc' = [conc EXCEPT ![k].chunks = Tail(@),
                                       ![k].received = Append(@, chunk)]
    /\ UNCHANGED <<routerState, agent_call, sessionVars, laterVars>>

\* Caller k's generate call is exhausted.
ConcClientExhausted(k) ==
    /\ conc[k].pc = "streaming"
    /\ conc[k].chunks = <<>>
    /\ IF ~conc[k].call.use_swarm
       THEN /\ conc' = [conc EXCEPT ![k].pc = "done"]
            /\ frames' = frames
       ELSE LET fr == frames[Slot(k)]
                out == Join(fr.agent_output)
            IN IF HasNext(fr.stage, fr.roles)
               THEN LET agent == fr.swarm[fr.roles[fr.stage + 1]]
                        g == [client |-> agent.llm_client,
                              prompt |-> full_prompt(agent,
                                           NextTask(conc[k].call.prompt, out),
                                           <<>>),
                              stream |-> conc[k].call.stream, attempts |-> 1]
                    IN /\ frames' = [frames EXCEPT
                                       ![Slot(k)].current_output = out,
                                       ![Slot(k)].stage = @ + 1,
                                       ![Slot(k)].agent_output = <<>>]
                       /\ conc' = [conc EXCEPT ![k].pc = "remote",
                                               ![k].gen = g]
               ELSE /\ frames' = [frames EXCEPT
                                    ![Slot(k)].current_output = out]
                    /\ conc' = [conc EXCEPT
                                  ![k].pc = "done",
                                  ![k].received =
                                      IF ~conc[k].call.stream
                                      THEN Append(@, out) ELSE @]
    /\ UNCHANGED <<routerState, agent_call, sessionVars, laterVars>>

ConcNext ==
    \/ \E k \in Callers, task_type \in ConcTaskTypes, use_swarm \in BOOLEAN,
          stream \in BOOLEAN : ConcRouteTask(k, task_type, use_swarm, stream)
    \/ \E k \in Callers : ConcRemoteReturn(k)
    \/ \E k \in Callers : ConcGenerateFails(k)
    \/ \E k \in Callers : ConcClientYield(k)
    \/ \E k \in Callers : ConcClientExhausted(k)

ConcSpec == ConcInit /\ [][ConcNext]_vars

\* --------------------------------------------------------- session manager
\* (src/src/sst_tts_translator/session/manager.py)
\* Largest max_sessions a manager is constructed with.
MaxLimit == 2
\* Most sessions created on one manager.
MaxIssued == 4
\* Latest reading of the wall clock, datetime.now(timezone.utc); readings
\* are 0..MaxTime, and the wall clock may stand still or be set back
\* between two readings.
MaxTime == 1
\* Most history entries held by the sessions of one manager.
MaxEntries == 2

\* str(uuid.uuid4()): the n-th id issued; ids are compared for equality only.
SessionIds == 1..MaxIssued

\* The context argument of create_session: None, or a mapping.
SessionContexts == {[given |-> FALSE, items |-> <<>>],
                    [given |-> TRUE, items |-> <<<<"language", "python">>>>]}
EntryRoles == {"user", "assistant"}
EntryContents == {"test"}

\* Session(session_id, created_at, context=...)
Session(session_id, created_at, context) ==
    [session_id |-> session_id, created_at |-> created_at, history |-> <<>>,
     context |-> context]

\* Session.add_entry
add_entry(session, role, content, now) ==
    [session EXCEPT !.history =
        Append(@, [role |-> role, content |-> content, timestamp |-> now])]

\* Session.get_summary
get_summary(session) ==
    [session_id |-> session.session_id, created_at |-> session.created_at,
     entries |-> Len(session.history), context |-> session.context]

\* session_id in self._sessions
Stored(ss, session_id) == \E i \in DOMAIN ss : ss[i].session_id = session_id

IndexOf(ss, session_id) == CHOOSE i \in DOMAIN ss : ss[i].session_id = session_id

\* min that returns the last, in iteration order, of the sessions with the
\* smallest created_at.
oldest_id_LastTie(ss) ==
    LET i == CHOOSE i \in DOMAIN ss :
                 /\ \A j \in DOMAIN ss : ss[i].created_at <= ss[j].created_at
                 /\ \A j \in (i + 1)..Len(ss) : ss[j].created_at # ss[i].created_at
    IN ss[i].session_id

\* min(self._sessions, key=created_at): the first, in iteration order, of
\* the sessions with the smallest created_at.
oldest_id(ss) ==
    LET i == CHOOSE i \in DOMAIN ss :
                 /\ \A j \in DOMAIN ss : ss[i].created_at <= ss[j].created_at
                 /\ \A j \in 1..(i - 1) : ss[j].created_at # ss[i].created_at
    IN ss[i].session_id

\* del self._sessions[session_id]
Without(ss, session_id) == SelectSeq(ss, LAMBDA x : x.session_id # session_id)

RECURSIVE _enforce_limit_OffByOne(_, _)
\* _enforce_limit that lets the store grow one past the limit.
_enforce_limit_OffByOne(ss, limit) ==
    IF Len(ss) > limit + 1
    THEN _enforce_limit_OffByOne(Without(ss, oldest_id(ss)), limit)
    ELSE ss

RECURSIVE _enforce_limit(_, _)
\* SessionManager._enforce_limit
_enforce_limit(ss, limit) ==
    IF Len(ss) > limit
    THEN _enforce_limit(Without(ss, oldest_id(ss)), limit)
    ELSE ss

\* SessionManager.create_session: the session returned and the store left.
create_session(ss, limit, session_id, now, context) ==
    LET session == Session(session_id, now,
                           IF context.given THEN context.items ELSE <<>>)
    IN [result |-> session,
        sessions |-> _enforce_limit(Append(ss, session), limit)]

\* SessionManager.get_session: the session, or Nil for None.
get_session(ss, session_id) ==
    IF Stored(ss, session_id) THEN ss[IndexOf(ss, session_id)] ELSE Nil

\* SessionManager.list_sessions
list_sessions(ss) == [i \in DOMAIN ss |-> get_summary(ss[i])]

\* delete_session that reports success whether or not the id was stored.
delete_session_AlwaysTrue(ss, session_id) ==
    [result |-> TRUE, sessions |-> Without(ss, session_id)]

\* SessionManager.delete_session
delete_session(ss, session_id) ==
    IF Stored(ss, session_id)
    THEN [result |-> TRUE, sessions |-> Without(ss, session_id)]
    ELSE [result |-> FALSE, sessions |-> ss]

\* add_to_session with one history list shared by all sessions.
add_to_session_SharedHistory(ss, session_id, role, content, now) ==
    IF ~Stored(ss, session_id)
    THEN [result |-> FALSE, sessions |-> ss]
    ELSE [result |-> TRUE,
          sessions |-> [i \in DOMAIN ss |-> add_entry(ss[i], role, content, now)]]

\* SessionManager.add_to_session
add_to_session(ss, session_id, role, content, now) ==
    IF ~Stored(ss, session_id)
    THEN [result |-> FALSE, sessions |-> ss]
    ELSE [result |-> TRUE,
          sessions |-> [ss EXCEPT ![IndexOf(ss, session_id)] =
                           add_entry(@, role, content, now)]]

RECURSIVE Entries(_)
\* Number of history entries held by the sessions of a store.
Entries(ss) ==
    IF ss = <<>> THEN 0 ELSE Len(Head(ss).history) + Entries(Tail(ss))

\* The ids a caller can hold: those issued so far, and one never issued.
KnownIds == {id \in SessionIds : id <= issued + 1}

\* SessionManager.__init__
SessionInit ==
    /\ RouterOff
    /\ AgentOff
    /\ ConcOff
    /\ LaterOff
    /\ _max_sessions \in 0..MaxLimit
    /\ _sessions = <<>>
    /\ issued = 0
    /\ deleted = FALSE
    /\ session_call = Nil

CreateSession(context, now) ==
    /\ issued < MaxIssued
    /\ LET r == create_session(_sessions, _max_sessions, issued + 1, now, context)
       IN /\ _sessions' = r.sessions
          /\ session_call' = [op |-> "create_session", context |-> context,
                      result |-> r.result]
    /\ issued' = issued + 1
    /\ UNCHANGED <<routerState, agent_call, conc, frames, laterVars,
                   _max_sessions,
                   deleted>>

DeleteSession(session_id) ==
    /\ LET r == delete_session(_sessions, session_id)
       IN /\ _sessions' = r.sessions
          /\ session_call' = [op |-> "delete_session", session_id |-> session_id,
                      result |-> r.result]
          /\ deleted' = (deleted \/ r.sessions # _sessions)
    /\ UNCHANGED <<routerState, agent_call, conc, frames, laterVars,
                   _max_sessions,
                   issued>>

AddToSession(session_id, role, content, now) ==
    /\ Entries(_sessions) < MaxEntries
    /\ LET r == add_to_session(_sessions, session_id, role, content, now)
       IN /\ _sessions' = r.sessions
          /\ session_call' = [op |-> "add_to_session", session_id |-> session_id,
                      role |-> role, content |-> content, result |-> r.result]
    /\ UNCHANGED <<routerState, agent_call, conc, frames, laterVars,
                   _max_sessions,
                   issued, deleted>>

SessionNext ==
    \/ \E context \in SessionContexts, now \in 0..MaxTime :
          CreateSession(context, now)
    \/ \E session_id \in KnownIds : DeleteSession(session_id)
    \/ \E session_id \in KnownIds, role \in EntryRoles,
          content \in EntryContents, now \in 0..MaxTime :
          AddToSession(session_id, role, content, now)

SessionSpec == SessionInit /\ [][SessionNext]_vars

\* ------------------------------------------------------------ observations
InCall == pc # "idle"

GenerateEvents == SelectSeq(events, LAMBDA e : e.kind = "generate")

\* The fragments the generate call of stage st has yielded, in order.
ChunksOf(st) ==
    LET es == SelectSeq(events, LAMBDA e : e.kind = "chunk" /\ e.stage = st)
    IN [i \in 1..Len(es) |-> es[i].chunk]

\* The fragments all generate calls have yielded, in order.
AllChunks ==
    LET es == SelectSeq(events, LAMBDA e : e.kind = "chunk")
    IN [i \in 1..Len(es) |-> es[i].chunk]

\* The backend a provider argument stands for.
Requested(provider) == IF provider # None THEN provider ELSE default_provider

\* ------------------------------------------------------------------ claims
\* C1: a route_task call whose provider argument names a backend without a
\* registered client fails with the configuration error before any
\* generation client is invoked and before any fragment is yielded, with
\* use_swarm false and true alike, and never runs the default backend's
\* client instead.
C1_UnregisteredProviderFails ==
    (InCall /\ call.provider # None /\ call.provider \notin DOMAIN clients)
    => /\ pc = "raised"
       /\ error.type = "ValueError"
       /\ GenerateEvents = <<>>
       /\ received = <<>>

\* C2: in swarm mode every agent is bound to one and the same client, the
\* one registered for the provider argument when one is given, otherwise the
\* one registered for the default provider.
C2_SwarmClientIsRequested ==
    (InCall /\ call.use_swarm /\ Requested(call.provider) \in DOMAIN clients)
    => \A r \in DOMAIN swarm :
          swarm[r].llm_client = clients[Requested(call.provider)]

\* The role sequence each task type of TaskTypes is to give.
ExpectedRoles ==
    [t \in TaskTypes |->
        CASE t = "code_generation" -> <<ARCHITECT, DEVELOPER>>
          [] t = "code_review" -> <<REVIEWER>>
          [] t = "testing" -> <<TESTER>>
          [] OTHER -> <<DEVELOPER>>]

\* C3: in swarm mode the role sequence is a function of task_type alone, by
\* exact string equality: code_generation gives [architect, developer],
\* code_review [reviewer], testing [tester], every other string (other
\* casing, surrounding blanks, prefixes, the empty string) [developer]; it is
\* never empty.
C3_RolesByExactTaskType ==
    (InCall /\ call.use_swarm)
    => /\ roles = ExpectedRoles[call.task_type]
       /\ roles # <<>>
       /\ (call.task_type \notin {"code_generation", "code_review", "testing"}
           => roles = <<DEVELOPER>>)

C3_Witness ==
    /\ pc = "done"
    /\ call.use_swarm
    /\ call.task_type = "Code_Generation"
    /\ Len(GenerateEvents) = 1
    /\ GenerateEvents[1].role = DEVELOPER

\* The full output of stage st: its fragments concatenated.
StageOut(st) == Join(ChunksOf(st))

Preamble(role) == _default_system_prompt(role) \o <<Lit("\n\n")>>

\* C4: with use_swarm, no streaming and task_type "code_generation" the
\* output is the developer's full output for a task text that is exactly the
\* architect's full output for the caller's prompt; the developer's prompt
\* holds nothing else of the caller's prompt.
C4_DeveloperRunsOnArchitectOutput ==
    (pc = "done" /\ call.use_swarm /\ ~call.stream
     /\ call.task_type = "code_generation")
    => LET g == GenerateEvents
       IN /\ Len(g) = 2
          /\ g[1].role = ARCHITECT
          /\ g[1].prompt = Preamble(ARCHITECT) \o call.prompt
          /\ StageOut(1) = Reply(g[1].client, g[1].prompt)
          /\ g[2].role = DEVELOPER
          /\ g[2].prompt = Preamble(DEVELOPER) \o StageOut(1)
          /\ StageOut(2) = Reply(g[2].client, g[2].prompt)
          /\ received = <<StageOut(2)>>

C4_Witness ==
    /\ pc = "done"
    /\ call.use_swarm
    /\ ~call.stream
    /\ call.task_type = "code_generation"
    /\ StageOut(1) # <<>>
    /\ Len(received) = 1
    /\ received[1] # <<>>

\* C5: with use_swarm and no streaming, a call that completes yields exactly
\* one fragment, the concatenation of the last stage's fragments, and until
\* then nothing: no fragment of an earlier stage reaches the caller.
C5_NonStreamedYieldsLastStageOnce ==
    (InCall /\ call.use_swarm /\ ~call.stream)
    => IF pc = "done"
       THEN received = <<StageOut(Len(roles))>>
       ELSE received = <<>>

C5_Witness ==
    /\ pc = "done"
    /\ call.use_swarm
    /\ ~call.stream
    /\ Len(roles) = 2
    /\ StageOut(1) # <<>>
    /\ StageOut(2) # StageOut(1)
    /\ Len(received) = 1

\* C6: with use_swarm and streaming the caller has received, at every
\* moment, exactly the fragments the stages have produced so far, once each
\* and in order: stage i's before stage i+1's, whose generation call starts
\* only after stage i's fragments are exhausted.  Two stages of two
\* fragments each give 4 fragments: the architect's two, then the
\* developer's two.
C6_StreamedForwardsEveryFragmentInOrder ==
    (InCall /\ call.use_swarm /\ call.stream)
    => /\ received = AllChunks
       /\ received = ChunksOf(1) \o ChunksOf(2)
       /\ \A j \in DOMAIN events :
            (events[j].kind = "generate" /\ events[j].stage > 1)
            => /\ \E i \in 1..(j - 1) : events[i] = EndEvent(events[j].stage - 1)
               /\ \A k \in (j + 1)..Len(events) :
                    events[k].kind = "chunk" => events[k].stage >= events[j].stage
       /\ (pc = "done" /\ Len(roles) = 2
           /\ Len(ChunksOf(1)) = 2 /\ Len(ChunksOf(2)) = 2)
          => /\ Len(received) = 4
             /\ SubSeq(received, 1, 2) = ChunksOf(1)
             /\ SubSeq(received, 3, 4) = ChunksOf(2)

C6_Witness ==
    /\ pc = "done"
    /\ call.use_swarm
    /\ call.stream
    /\ call.task_type = "code_generation"
    /\ Len(ChunksOf(1)) = 2
    /\ Len(ChunksOf(2)) = 2
    /\ Len(received) = 4

RECURSIVE ChainResult(_, _, _)
\* The text a chain of roles rs bound to client c turns a task text into:
\* each role's reply to its preamble and the reply of the role before it.
ChainResult(c, rs, task) ==
    IF rs = <<>> THEN task
    ELSE ChainResult(c, Tail(rs), Reply(c, Preamble(Head(rs)) \o task))

RECURSIVE ChainOutputs(_, _, _)
\* The replies of all the roles of that chain, concatenated in stage order.
ChainOutputs(c, rs, task) ==
    IF rs = <<>> THEN <<>>
    ELSE LET out == Reply(c, Preamble(Head(rs)) \o task)
         IN out \o ChainOutputs(c, Tail(rs), out)

\* What the call in progress yields when it is not streamed.
NonStreamedResult ==
    ChainResult(clients[default_provider], ExpectedRoles[call.task_type],
                call.prompt)

\* C7 as stated: with use_swarm and deterministic clients, the concatenation
\* of the fragments yielded with stream=true equals the result yielded with
\* stream=false for the same inputs.
C7_StreamedConcatEqualsNonStreamed ==
    (pc = "done" /\ call.use_swarm)
    => IF call.stream
       THEN Join(received) = NonStreamedResult
       ELSE received = <<NonStreamedResult>>

\* C7 as amended: with use_swarm and deterministic clients, stream=false
\* yields the last stage's output, and the concatenation of the fragments
\* yielded with stream=true is the concatenation of every stage's output in
\* stage order, which ends with the stream=false result and is equal to it
\* when the chain has a single stage (every task_type but code_generation).
C7_StreamedConcatIsAllStageOutputs ==
    (pc = "done" /\ call.use_swarm)
    => LET c == clients[default_provider]
           rs == ExpectedRoles[call.task_type]
           all == ChainOutputs(c, rs, call.prompt)
           last == NonStreamedResult
       IN IF call.stream
          THEN /\ Join(received) = all
               /\ Len(all) >= Len(last)
               /\ SubSeq(all, Len(all) - Len(last) + 1, Len(all)) = last
               /\ (call.task_type # "code_generation" => Join(received) = last)
               /\ (call.task_type = "code_generation"
                   => Join(received)
                      = Reply(c, Preamble(ARCHITECT) \o call.prompt) \o last)
          ELSE received = <<last>>

C7_Witness ==
    /\ pc = "done"
    /\ call.use_swarm
    /\ call.stream
    /\ call.task_type = "code_generation"
    /\ StageOut(1) # <<>>
    /\ Join(received) # NonStreamedResult
    /\ Len(received) >= 2

\* C8: without use_swarm, route_task invokes one client once, the one
\* registered for the provider argument if given, else for the default
\* provider, with the unmodified prompt and the caller's stream flag, and
\* fails with the configuration error when that provider has no client; the
\* client's fragments reach the caller unchanged, in order and number, so
\* with stream=false the caller gets the client's one non-streamed output.
C8_DirectCallPassesThrough ==
    (InCall /\ ~call.use_swarm)
    => LET p == Requested(call.provider)
       IN IF p \notin DOMAIN clients
          THEN /\ pc = "raised"
               /\ error.type = "ValueError"
               /\ GenerateEvents = <<>>
               /\ received = <<>>
          ELSE /\ Len(GenerateEvents) = 1
               /\ GenerateEvents[1].client = clients[p]
               /\ GenerateEvents[1].prompt = call.prompt
               /\ GenerateEvents[1].stream = call.stream
               /\ received = AllChunks
               /\ (pc = "done" /\ ~call.stream)
                  => received = <<Reply(clients[p], call.prompt)>>
               /\ (pc = "done" /\ call.stream)
                  => Join(received) = Reply(clients[p], call.prompt)

C8_Witness ==
    /\ pc = "done"
    /\ ~call.use_swarm
    /\ ~call.stream
    /\ call.provider \notin {None, default_provider}
    /\ Len(received) = 1
    /\ received[1] # <<>>

\* A generation error has been raised in the swarm call in progress.
StageRaised ==
    /\ InCall
    /\ call.use_swarm
    /\ \E i \in DOMAIN events :
         events[i].kind = "raise" /\ events[i].error.type = "RuntimeError"

\* C9: in swarm mode, when the generation of stage i raises, the chain stops
\* at once: the error is the last thing that happens in the call, no later
\* stage is invoked, no further fragment and no substitute result is
\* yielded, and that same error, unwrapped, is what reaches the caller.
C9_StageErrorAbortsChain ==
    /\ [](StageRaised
          => LET n == Len(events)
             IN /\ pc = "raised"
                /\ events[n].kind = "raise"
                /\ error = events[n].error
                /\ \E e \in RemoteErrors : error = GenerationError(gen.client, e)
                /\ \A i \in 1..(n - 1) : events[i].kind # "raise"
                /\ \A i \in 1..n : events[i].stage <= events[n].stage
                /\ received = IF call.stream THEN AllChunks ELSE <<>>)
    /\ [][pc = "raised" => pc' = "idle"]_vars

C9_Witness ==
    /\ StageRaised
    /\ pc = "raised"
    /\ call.stream
    /\ Len(roles) = 2
    /\ stage = 1
    /\ received # <<>>

\* C10: in swarm mode, when no stage fails and the caller drains the output,
\* every role of the sequence is run exactly once, left to right, none
\* skipped or repeated, each started only after the one before it has ended;
\* task_type "testing" builds one agent, the tester, invoked once with the
\* caller's prompt as its task text.
C10_EveryRoleRunsOnceInOrder ==
    (pc = "done" /\ call.use_swarm)
    => LET g == GenerateEvents
       IN /\ Len(g) = Len(roles)
          /\ \A i \in DOMAIN g : g[i].role = roles[i] /\ g[i].stage = i
          /\ \A i, j \in DOMAIN events :
               (i < j /\ events[i].kind = "generate" /\ events[j].kind = "generate")
               => \E k \in (i + 1)..(j - 1) : events[k] = EndEvent(events[i].stage)
          /\ events[Len(events)] = EndEvent(Len(roles))
          /\ (call.task_type = "testing"
              => /\ DOMAIN swarm = {TESTER}
                 /\ Len(g) = 1
                 /\ g[1].role = TESTER
                 /\ g[1].prompt = Preamble(TESTER) \o call.prompt)

C10_Witness ==
    /\ pc = "done"
    /\ call.use_swarm
    /\ ~call.stream
    /\ call.task_type = "testing"
    /\ call.prompt = <<Lit("write a function")>>
    /\ Len(GenerateEvents) = 1
    /\ Len(received) = 1

\* C11: after the router is constructed, no route_task, get_client or
\* create_agent_swarm call, successful or failing, swarm or not, streamed or
\* not, changes the backend-to-client mapping or the default provider.
C11_RouterConfigurationIsFixed ==
    [][clients' = clients /\ default_provider' = default_provider]_vars

C11_Witness ==
    /\ returned # Nil
    /\ returned.op = "create_agent_swarm"
    /\ returned.provider \notin {None, default_provider}
    /\ returned.result.ok
    /\ DOMAIN returned.result.swarm = {ARCHITECT, DEVELOPER}

\* C14: when the remote call of a generation client errors, generate fails
\* with an error that names the backend and carries the underlying cause;
\* the client makes one remote attempt per generate call, no retry, and the
\* error is the next thing the caller gets.
C14_RemoteErrorRaisedOnceWithCause ==
    /\ (InCall /\ gen # Nil) => gen.attempts = 1
    /\ \A i \in DOMAIN events :
         events[i].kind = "remote_error"
         => /\ pc = "raised"
            /\ i + 1 = Len(events)
            /\ events[i + 1].kind = "raise"
            /\ error = events[i + 1].error
            /\ error.type = "RuntimeError"
            /\ error.generation = gen.client.name
            /\ error.cause = events[i].cause
            /\ error.__context__ = events[i].cause

C14_Witness ==
    /\ pc = "raised"
    /\ ~call.use_swarm
    /\ events # <<>>
    /\ events[Len(events)].kind = "raise"
    /\ error.type = "RuntimeError"
    /\ error.generation = "Anthropic"
    /\ error.cause = "timeout"

\* C15: when the consumer of a streamed swarm call stops pulling fragments
\* while a stage is still producing, the router does nothing further: no
\* generation call is started and no fragment is produced; the only step
\* left is the end of the call.
C15_AbandonedCallDoesNothingFurther ==
    [][pc = "abandoned"
       => \/ pc' = "idle"
          \/ /\ pc' = "abandoned"
             /\ events' = events
             /\ received' = received
             /\ gen' = gen
             /\ chunks' = chunks]_vars

C15_Witness ==
    /\ pc = "abandoned"
    /\ call.use_swarm
    /\ call.stream
    /\ Len(roles) = 2
    /\ stage = 1
    /\ chunks # <<>>

\* C13: the prompt Agent.process sends its client is the system preamble, a
\* blank line and the task text; with a non-empty context it goes on with a
\* blank line, a "Context:" line and one "key: value" line per entry, in the
\* iteration order of the mapping; with no or an empty context nothing is
\* added.
C13_PromptHasContextBlockInOrder ==
    agent_call # Nil
    => LET base == _default_system_prompt(agent_call.role)
                   \o <<Lit("\n\n")>> \o agent_call.task
           items == agent_call.context.items
           n == Len(items)
           sent == agent_call.sent.prompt
           block == SubSeq(sent, Len(base) + 1, Len(sent))
       IN /\ SubSeq(sent, 1, Len(base)) = base
          /\ agent_call.sent.stream = agent_call.stream
          /\ IF agent_call.context.given /\ n > 0
             THEN /\ Len(block) = 4 * n
                  /\ block[1] = Lit("\n\nContext:\n")
                  /\ \A i \in 1..n :
                       /\ block[4 * i - 2] = Lit(items[i][1])
                       /\ block[4 * i - 1] = Lit(": ")
                       /\ block[4 * i] = Lit(items[i][2])
                       /\ i < n => block[4 * i + 1] = Lit("\n")
             ELSE sent = base

C13_Witness ==
    /\ agent_call # Nil
    /\ agent_call.context.given
    /\ agent_call.context.items = <<<<"project", "test">>, <<"language", "python">>>>
    /\ Len(agent_call.sent.prompt) = 11

\* The whole text caller k is to receive when its call runs alone.
ExpectedAlone(k) ==
    LET a == conc[k].call
        c == clients[default_provider]
    IN IF a.use_swarm
       THEN IF a.stream
            THEN ChainOutputs(c, ExpectedRoles[a.task_type], a.prompt)
            ELSE ChainResult(c, ExpectedRoles[a.task_type], a.prompt)
       ELSE Reply(c, a.prompt)

IsPrefix(s, t) == Len(s) <= Len(t) /\ SubSeq(t, 1, Len(s)) = s

\* C12: when several route_task calls interleave on one shared router, each
\* call has its own agents and its own intermediate output, what each
\* caller receives is what it would receive if its call ran alone, and a
\* step of one call changes nothing that belongs to another call.
C12_ConcurrentCallsDoNotInterfere ==
    /\ [](\A k \in Callers :
            conc[k].pc # "idle"
            => /\ IsPrefix(Join(conc[k].received), ExpectedAlone(k))
               /\ conc[k].pc = "done"
                  => /\ Join(conc[k].received) = ExpectedAlone(k)
                     /\ ~conc[k].call.stream => Len(conc[k].received) = 1
               /\ conc[k].call.use_swarm
                  => /\ frames[k].roles = ExpectedRoles[conc[k].call.task_type]
                     /\ DOMAIN frames[k].swarm = Range(frames[k].roles)
                     /\ frames[k].stage \in DOMAIN frames[k].roles
                     /\ frames[k].stage = 1
                        => conc[k].gen.prompt
                           = Preamble(frames[k].roles[1]) \o PromptOf(k))
    /\ [][\A j, k \in Callers :
            (j # k /\ (conc'[j] # conc[j] \/ frames'[j] # frames[j]))
            => (conc'[k] = conc[k] /\ frames'[k] = frames[k])]_vars

C12_Witness ==
    /\ conc[1].pc = "streaming"
    /\ conc[1].call.use_swarm
    /\ conc[1].call.task_type = "code_generation"
    /\ frames[1].stage = 2
    /\ conc[2].pc = "streaming"
    /\ conc[2].call.use_swarm
    /\ conc[2].call.task_type = "testing"
    /\ conc[2].call.stream
    /\ conc[2].received # <<>>
    /\ conc[2].chunks # <<>>

\* ----------------------------------------------------- session manager claims
StoredIds == {_sessions[i].session_id : i \in DOMAIN _sessions}

Smaller(a, b) == IF a < b THEN a ELSE b

\* C16: after any sequence of create_session, delete_session and
\* add_to_session calls the number of stored (and listed) sessions is at most
\* max_sessions; with no deletions it is the smaller of the number of creations
\* and max_sessions (5 creations with max_sessions = 3 leave exactly 3).
C16_StoreNeverExceedsLimit ==
    /\ Len(_sessions) <= _max_sessions
    /\ Len(list_sessions(_sessions)) <= _max_sessions
    /\ ~deleted => Len(_sessions) = Smaller(issued, _max_sessions)

C16_Witness ==
    /\ session_call # Nil
    /\ session_call.op = "create_session"
    /\ _max_sessions >= 2
    /\ issued >= _max_sessions + 2
    /\ ~deleted
    /\ Len(list_sessions(_sessions)) = _max_sessions

\* C17: after n > max_sessions creations with no deletions, exactly the
\* max_sessions most recently created sessions remain and the
\* n - max_sessions earliest created ones are gone.
C17_MostRecentlyCreatedRemain ==
    (~deleted /\ issued > _max_sessions)
        => StoredIds = (issued - _max_sessions + 1)..issued

\* C18: immediately after create_session returns a session s, s has an empty
\* history and the supplied context (empty when none is supplied), and
\* get_session(s.session_id) returns that same session.
C18_CreatedSessionIsRetrievable ==
    (session_call # Nil /\ session_call.op = "create_session")
        => LET s == session_call.result
           IN /\ s.history = <<>>
              /\ s.context = (IF session_call.context.given
                              THEN session_call.context.items ELSE <<>>)
              /\ get_session(_sessions, s.session_id) = s

\* C19: delete_session(id) returns True exactly when a session with that id is
\* stored at the time of the call, and then removes that session and no other,
\* so a following get_session(id) returns None; when no such session is stored
\* it returns False and leaves the store unchanged.
C19_DeleteRemovesExactlyThatSession ==
    [][session_call'.op = "delete_session"
        => LET id == session_call'.session_id
               was == \E i \in DOMAIN _sessions : _sessions[i].session_id = id
           IN /\ session_call'.result = was
              /\ was => /\ _sessions' = SelectSeq(_sessions,
                                            LAMBDA x : x.session_id # id)
                        /\ Len(_sessions') = Len(_sessions) - 1
                        /\ get_session(_sessions', id) = Nil
              /\ ~was => _sessions' = _sessions]_vars

C19_Witness ==
    /\ session_call # Nil
    /\ session_call.op = "delete_session"
    /\ session_call.result
    /\ _sessions # <<>>
    /\ get_session(_sessions, session_call.session_id) = Nil

\* C20: add_to_session(id, role, content) on a stored session returns True and
\* appends exactly one entry carrying that role and content to the end of that
\* session's history, leaving earlier entries, every other session and the set
\* of stored sessions unchanged, so the summary's entry count grows by one; on
\* an id that is not stored it returns False and changes nothing.
C20_AddAppendsOneEntryToThatSession ==
    [][session_call'.op = "add_to_session"
        => LET id == session_call'.session_id
               was == \E i \in DOMAIN _sessions : _sessions[i].session_id = id
           IN /\ session_call'.result = was
              /\ ~was => _sessions' = _sessions
              /\ was =>
                   /\ DOMAIN _sessions' = DOMAIN _sessions
                   /\ \A i \in DOMAIN _sessions :
                        LET old == _sessions[i]
                            new == _sessions'[i]
                        IN IF old.session_id # id
                           THEN new = old
                           ELSE /\ new.session_id = old.session_id
                                /\ new.created_at = old.created_at
                                /\ new.context = old.context
                                /\ Len(new.history) = Len(old.history) + 1
                                /\ SubSeq(new.history, 1, Len(old.history))
                                       = old.history
                                /\ new.history[Len(new.history)].role
                                       = session_call'.role
                                /\ new.history[Len(new.history)].content
                                       = session_call'.content
                                /\ get_summary(new).entries
                                       = get_summary(old).entries + 1]_vars

C20_Witness ==
    /\ session_call # Nil
    /\ session_call.op = "add_to_session"
    /\ session_call.result
    /\ Len(_sessions) >= 2
    /\ Len(get_session(_sessions, session_call.session_id).history) = 2
    /\ \E i \in DOMAIN _sessions :
          /\ _sessions[i].session_id # session_call.session_id
          /\ _sessions[i].history = <<>>

\* C30: when several stored sessions share the smallest created_at at the
\* moment the limit is enforced, the one evicted is the one inserted first; the
\* session just created is evicted only if every other stored session has a
\* strictly later created_at (which holds of an empty store, when the limit
\* leaves no room at all).
C30_TieEvictsFirstInserted ==
    [][session_call'.op = "create_session"
        => LET s == session_call'.result
               all == Append(_sessions, s)
               kept(i) == SubSeq(all, 1, i - 1) \o SubSeq(all, i + 1, Len(all))
           IN /\ Len(all) <= _max_sessions => _sessions' = all
              /\ Len(all) > _max_sessions =>
                   \E i \in DOMAIN all :
                      /\ \A j \in DOMAIN all :
                            all[i].created_at <= all[j].created_at
                      /\ \A j \in 1..(i - 1) :
                            all[j].created_at > all[i].created_at
                      /\ _sessions' = kept(i)
              /\ (\A i \in DOMAIN _sessions' :
                     _sessions'[i].session_id # s.session_id)
                   => \A j \in DOMAIN _sessions :
                         _sessions[j].created_at > s.created_at]_vars

C30_Witness ==
    /\ session_call # Nil
    /\ session_call.op = "create_session"
    /\ ~deleted
    /\ issued > _max_sessions
    /\ Len(_sessions) >= 2
    /\ \A i \in DOMAIN _sessions : _sessions[i].created_at = 0
    /\ \E i \in DOMAIN _sessions :
          _sessions[i].session_id = session_call.result.session_id

\* ------------------------------------------------- streamed swarm failures
RECURSIVE ChunksUpTo(_)
\* The fragments stages 1..st have yielded, stage by stage.
ChunksUpTo(st) == IF st = 0 THEN <<>> ELSE ChunksUpTo(st - 1) \o ChunksOf(st)

\* C28: in a streamed swarm call in which stage i fails, every fragment that
\* stages 1..i produced before the failure has been delivered to the caller,
\* in order, before the error, the stages before i having run to their end;
\* in the non-streamed call with the same failure the caller has received no
\* fragment at all when the error reaches it.
C28_FragmentsBeforeFailureDelivered ==
    (pc = "raised" /\ call.use_swarm /\ error.type = "RuntimeError")
    => LET n == Len(events)
       IN /\ stage \in DOMAIN roles
          /\ events[n].kind = "raise" /\ events[n].stage = stage
          /\ \A st \in 1..(stage - 1) :
                \E k \in 1..n : events[k].kind = "end" /\ events[k].stage = st
          /\ IF call.stream
             THEN /\ received = ChunksUpTo(stage)
                  /\ Len(received)
                        = Cardinality({k \in 1..n : events[k].kind = "chunk"})
             ELSE received = <<>>

C28_Witness ==
    /\ pc = "raised"
    /\ call.use_swarm
    /\ call.stream
    /\ error.type = "RuntimeError"
    /\ stage = 2
    /\ ChunksOf(1) # <<>>
    /\ ChunksOf(2) # <<>>
    /\ chunks # <<>>

\* ------------------------------------------------------ scaffold generator
\* (src/src/sst_tts_translator/scaffold/generator.py)
\* Router, agents and session manager all idle.
CoreOff == RouterOff /\ AgentOff /\ ConcOff /\ SessionOff

\* Most fields of a value object.
MaxFields == 3

\* EntityField.default: None (Nil), or the source text of a default value.
FieldDefaults == {Nil, Lit("\"USD\"")}

\* EntityField(name, type, required, default); the n-th field of a value
\* object is named n.
EntityField(n, required, default) ==
    [name |-> [field |-> n], type |-> Lit("str"), required |-> required,
     default |-> default]

\* ValueObject(name, fields), with up to MaxFields fields of every kind in
\* every order.
ValueObjects ==
    {[name |-> Lit("Address"),
      fields |-> [i \in 1..Len(k) |-> EntityField(i, k[i][1], k[i][2])]] :
        k \in UNION {[1..m -> BOOLEAN \X FieldDefaults] : m \in 0..MaxFields}}

\* The lines before the fields: module docstring, imports, decorator, class
\* line and class docstring.
ValueObjectHeader(v) ==
    << <<Lit("\"\"\"Value object definition.\"\"\"")>>,
       <<>>,
       <<Lit("from dataclasses import dataclass")>>,
       <<Lit("from typing import Optional")>>,
       <<>>,
       <<>>,
       <<Lit("@dataclass(frozen=True)")>>,
       <<Lit("class "), v.name, Lit(":")>>,
       <<Lit("    \"\"\""), v.name, Lit(" value object.\"\"\"")>>,
       <<Lit("    ")>> >>

\* The line emitted for one field.
FieldLine(f) ==
    LET field_type == IF ~f.required
                      THEN <<Lit("Optional["), f.type, Lit("]")>>
                      ELSE <<f.type>>
        declared == <<Lit("    "), f.name, Lit(": ")>> \o field_type
    IN IF f.default # Nil THEN declared \o <<Lit(" = "), f.default>>
       ELSE IF ~f.required THEN declared \o <<Lit(" = "), Lit("None")>>
       ELSE declared

\* DDDGenerator._generate_python_value_object: the lines joined by "\n".
_generate_python_value_object(v) ==
    ValueObjectHeader(v) \o [i \in DOMAIN v.fields |-> FieldLine(v.fields[i])]

\* A value object is about to be generated.
GenInit ==
    /\ CoreOff
    /\ WhisperOff
    /\ WsOff
    /\ GitOff
    /\ FactoryOff
    /\ vo \in ValueObjects
    /\ code = Nil

GenerateValueObject ==
    /\ code = Nil
    /\ code' = _generate_python_value_object(vo)
    /\ UNCHANGED <<coreVars, notGen, vo>>

GenNext == GenerateValueObject

GenSpec == GenInit /\ [][GenNext]_vars

\* The line of the generated code that declares field n.
LineOf(n) ==
    CHOOSE k \in DOMAIN code : Len(code[k]) >= 2 /\ code[k][2] = [field |-> n]

\* A line that gives its field a default value.
Defaulted(line) == \E k \in DOMAIN line : line[k] = Lit(" = ")

\* 0 for a required field without default, 1 for a required field with a
\* default, 2 for an optional field.
Rank(f) == IF ~f.required THEN 2 ELSE IF f.default = Nil THEN 0 ELSE 1

\* C21: in the code generated for a value object every required field
\* without a default comes before every required field with a default, which
\* comes before every optional field, whatever the input order, so that no
\* field without a default follows one with a default.
C21_FieldsReorderedByKind ==
    code # Nil
    => /\ \A i, j \in DOMAIN vo.fields :
            Rank(vo.fields[i]) < Rank(vo.fields[j]) => LineOf(i) < LineOf(j)
       /\ \A k, l \in DOMAIN code :
            (k < l /\ Defaulted(code[k])) => Defaulted(code[l])

\* --------------------------------------------- /ws/transcribe and providers
\* (src/src/sst_tts_translator/api/server.py,
\*  src/src/sst_tts_translator/stt/provider.py)
\* Most audio chunks a client sends on one connection.
MaxAudio == 2

STTProviders == {"whisper", "deepgram"}

WebSocketDisconnect == [type |-> "WebSocketDisconnect"]

\* Exceptions a library call (model load, Deepgram SDK, websocket receive or
\* send) raises.
StepErrors == {[type |-> "ValueError"]}

\* RuntimeError("Failed to start Deepgram connection")
StartRefused ==
    [type |-> "RuntimeError",
     message |-> <<Lit("Failed to start Deepgram connection")>>]

\* raise RuntimeError(f"Deepgram transcription error: {e}") inside
\* `except Exception as e`: the exception being handled becomes the implicit
\* __context__, and no `from` clause sets __cause__.
DeepgramError(e) ==
    [type |-> "RuntimeError",
     message |-> <<Lit("Deepgram transcription error: "), e>>,
     __cause__ |-> Nil, __context__ |-> e]

\* What transcribe_stream of the provider raises when one of its steps
\* raises e: DeepgramSTT wraps it, WhisperSTT lets it through.
Raised(provider, e) == IF provider = "deepgram" THEN DeepgramError(e) ELSE e

\* The exception the handler caught, and the call that raised it.
Caught(e, by) == [exc |-> e, raised_by |-> by]

\* The transcript of the n-th audio chunk (Deepgram) and of a whole buffer
\* (Whisper).
Transcript(n) == [transcript_of |-> <<n>>]
Transcription(audio_data) == [transcript_of |-> audio_data]

TranscriptionMessage(text) == [type |-> "transcription", text |-> text]
EndMessage == [type |-> "end"]
ErrorMessage(e) == [type |-> "error", message |-> e]

\* await websocket.accept() has returned.
WsInit ==
    /\ CoreOff
    /\ WhisperOff
    /\ GenOff
    /\ GitOff
    /\ FactoryOff
    /\ stt \in STTProviders
    /\ ws_pc = "start"
    /\ connected = TRUE
    /\ audio_ended = FALSE
    /\ buffer = <<>>
    /\ transcripts = <<>>
    /\ outbox = <<>>
    /\ messages = <<>>
    /\ failure = Nil
    /\ escaped = Nil
    /\ closes = 0

\* The first step of transcribe_stream succeeds: WhisperSTT._load_model, or
\* DeepgramSTT's client, connection, handler registration and start().
WsProviderStarts ==
    /\ ws_pc = "start"
    /\ ws_pc' = "streaming"
    /\ UNCHANGED <<coreVars, notWs, stt, connected, audio_ended, buffer,
                   transcripts, outbox, messages, failure, escaped, closes>>

\* A step of transcribe_stream raises e: it reaches the handler's
\* `except Exception` as the provider raises it.
WsProviderFails(e) ==
    /\ ws_pc \in {"start", "streaming", "finishing"}
    /\ ws_pc = "finishing" /\ stt = "whisper" => buffer # <<>>
    /\ ws_pc' = "failed"
    /\ failure' = Caught(Raised(stt, e), "transcribe_stream")
    /\ UNCHANGED <<coreVars, notWs, stt, connected, audio_ended, buffer,
                   transcripts, outbox, messages, escaped, closes>>

\* dg_connection.start(options) returns False.
WsDeepgramStartRefused ==
    /\ ws_pc = "start"
    /\ stt = "deepgram"
    /\ ws_pc' = "failed"
    /\ failure' = Caught(Raised(stt, StartRefused), "transcribe_stream")
    /\ UNCHANGED <<coreVars, notWs, stt, connected, audio_ended, buffer,
                   transcripts, outbox, messages, escaped, closes>>

\* audio_stream() yields the next chunk the client sent and the provider
\* takes it: WhisperSTT writes it to its buffer, DeepgramSTT sends it on.
WsReceiveChunk ==
    /\ ws_pc = "streaming"
    /\ connected
    /\ Len(buffer) < MaxAudio
    /\ buffer' = Append(buffer, Len(buffer) + 1)
    /\ UNCHANGED <<coreVars, notWs, stt, ws_pc, connected, audio_ended,
                   transcripts, outbox, messages, failure, escaped, closes>>

\* receive_bytes() returns empty data, or raises WebSocketDisconnect because
\* the client has gone: audio_stream() breaks out of its loop.
WsAudioEnds(gone) ==
    /\ ws_pc = "streaming"
    /\ connected
    /\ connected' = ~gone
    /\ audio_ended' = TRUE
    /\ ws_pc' = "finishing"
    /\ UNCHANGED <<coreVars, notWs, stt, buffer, transcripts, outbox,
                   messages, failure, escaped, closes>>

\* on_message: Deepgram delivers the transcript of the next chunk it was
\* sent; the handler appends it to transcripts.
WsDeepgramTranscript ==
    /\ stt = "deepgram"
    /\ ws_pc \in {"streaming", "finishing"}
    /\ Len(transcripts) < Len(buffer)
    /\ transcripts' = Append(transcripts, Transcript(Len(transcripts) + 1))
    /\ UNCHANGED <<coreVars, notWs, stt, ws_pc, connected, audio_ended,
                   buffer, outbox, messages, failure, escaped, closes>>

\* The texts transcribe_stream yields once the audio stream has ended:
\* WhisperSTT the transcription of the whole buffer, if any audio came;
\* DeepgramSTT the transcripts accumulated until finish() returned.
Yielded(provider, audio_data, ts) ==
    IF provider = "whisper"
    THEN IF audio_data # <<>> THEN <<Transcription(audio_data)>> ELSE <<>>
    ELSE ts

\* The audio stream has ended: WhisperSTT.transcribe_file, or
\* dg_connection.finish(), returns.
WsProviderFinishes ==
    /\ ws_pc = "finishing"
    /\ outbox' = Yielded(stt, buffer, transcripts)
    /\ ws_pc' = "yielding"
    /\ UNCHANGED <<coreVars, notWs, stt, connected, audio_ended, buffer,
                   transcripts, messages, failure, escaped, closes>>

\* transcribe_stream yields its next text and send_json delivers it.
WsSendTranscription ==
    /\ ws_pc = "yielding"
    /\ outbox # <<>>
    /\ connected
    /\ messages' = Append(messages, TranscriptionMessage(Head(outbox)))
    /\ outbox' = Tail(outbox)
    /\ UNCHANGED <<coreVars, notWs, stt, ws_pc, connected, audio_ended,
                   buffer, transcripts, failure, escaped, closes>>

\* transcribe_stream is exhausted and send_json delivers the end message.
WsSendEnd ==
    /\ ws_pc = "yielding"
    /\ outbox = <<>>
    /\ connected
    /\ messages' = Append(messages, EndMessage)
    /\ ws_pc' = "closing"
    /\ UNCHANGED <<coreVars, notWs, stt, connected, audio_ended, buffer,
                   transcripts, outbox, failure, escaped, closes>>

\* Where the handler goes when send_json of a transcription or of the end
\* message raises e: WebSocketDisconnect is logged, any other exception is
\* reported to the client.
AfterSendRaises(e) == IF e = WebSocketDisconnect THEN "closing" ELSE "failed"

\* send_json of a transcription or of the end message raises.
WsSendFails(e) ==
    /\ ws_pc = "yielding"
    /\ ws_pc' = AfterSendRaises(e)
    /\ failure' = Caught(e, "send_json")
    /\ connected' = (connected /\ e # WebSocketDisconnect)
    /\ UNCHANGED <<coreVars, notWs, stt, audio_ended, buffer, transcripts,
                   outbox, messages, escaped, closes>>

\* The handler's `except Exception`: send_json delivers the error message.
WsSendError ==
    /\ ws_pc = "failed"
    /\ connected
    /\ messages' = Append(messages, ErrorMessage(failure.exc))
    /\ ws_pc' = "closing"
    /\ UNCHANGED <<coreVars, notWs, stt, connected, audio_ended, buffer,
                   transcripts, outbox, failure, escaped, closes>>

\* An error message that could not be sent, left to propagate.
ErrorSendEscape_Unguarded(e) == e

\* except (WebSocketDisconnect, Exception) as send_err: logged, not raised.
ErrorSendEscape(e) == Nil

\* send_json of the error message raises.
WsSendErrorFails(e) ==
    /\ ws_pc = "failed"
    /\ escaped' = ErrorSendEscape(e)
    /\ connected' = (connected /\ e # WebSocketDisconnect)
    /\ ws_pc' = "closing"
    /\ UNCHANGED <<coreVars, notWs, stt, audio_ended, buffer, transcripts,
                   outbox, messages, failure, closes>>

\* finally: websocket.close() returns, or raises and the exception is logged.
WsClose(ok) ==
    /\ ws_pc = "closing"
    /\ closes' = closes + 1
    /\ connected' = (connected /\ ~ok)
    /\ ws_pc' = "returned"
    /\ UNCHANGED <<coreVars, notWs, stt, audio_ended, buffer, transcripts,
                   outbox, messages, failure, escaped>>

WsNext ==
    \/ WsProviderStarts
    \/ \E e \in StepErrors : WsProviderFails(e)
    \/ WsDeepgramStartRefused
    \/ WsReceiveChunk
    \/ \E gone \in BOOLEAN : WsAudioEnds(gone)
    \/ WsDeepgramTranscript
    \/ WsProviderFinishes
    \/ WsSendTranscription
    \/ WsSendEnd
    \/ \E e \in StepErrors \cup {WebSocketDisconnect} : WsSendFails(e)
    \/ WsSendError
    \/ \E e \in StepErrors \cup {WebSocketDisconnect} : WsSendErrorFails(e)
    \/ \E ok \in BOOLEAN : WsClose(ok)

WsSpec == WsInit /\ [][WsNext]_vars

\* C22: when a step of DeepgramSTT.transcribe_stream fails, the RuntimeError
\* it raises has the original exception as its explicit cause: __cause__ is
\* that exception, not None.
C22_DeepgramErrorHasCause ==
    (stt = "deepgram" /\ failure # Nil
     /\ failure.raised_by = "transcribe_stream")
    => /\ failure.exc.type = "RuntimeError"
       /\ failure.exc.__cause__ # Nil
       /\ failure.exc.__cause__ \in StepErrors \cup {StartRefused}

Sent(type) == {i \in DOMAIN messages : messages[i].type = type}

\* No transcription message leaves before audio_stream() has ended.
NoTranscriptionBeforeAudioEnds == Sent("transcription") # {} => audio_ended

\* C25: transcribed text is streamed back in real time: a transcription of
\* audio already received is sent while the client is still sending, so when
\* the audio stream ends with a transcript already obtained, a transcription
\* message has been sent.
C25_TranscriptionSentWhileAudioStillComing ==
    [][(~audio_ended /\ audio_ended' /\ transcripts # <<>>)
        => Sent("transcription")' # {}]_vars

\* C26: an accepted connection returns only through an attempt to close the
\* socket, whatever happened before; "end" is sent once, after every
\* transcription message, and only when transcription finished without
\* error; "error" is sent only after a failure and never with "end"; no
\* transcription message follows "end"; no exception leaves the handler.
C26_HandlerAlwaysClosesAndOrdersMessages ==
    /\ [](/\ closes = (IF ws_pc = "returned" THEN 1 ELSE 0)
          /\ escaped = Nil
          /\ \A i \in Sent("end") :
                /\ i = Len(messages)
                /\ failure = Nil
                /\ audio_ended /\ outbox = <<>>
                /\ SubSeq(messages, 1, i - 1)
                      = [k \in 1..(i - 1) |->
                            TranscriptionMessage(
                                Yielded(stt, buffer, transcripts)[k])]
          /\ \A i \in Sent("error") :
                /\ i = Len(messages)
                /\ failure # Nil
                /\ messages[i].message = failure.exc
                /\ failure.exc # WebSocketDisconnect
                /\ Sent("end") = {})
    /\ [][ws_pc' = "returned" => (ws_pc = "closing" /\ closes' = closes + 1)]_vars

C26_Witness ==
    /\ ws_pc = "returned"
    /\ closes = 1
    /\ failure # Nil
    /\ failure.raised_by = "send_json"
    /\ failure.exc # WebSocketDisconnect
    /\ Sent("transcription") # {}
    /\ Sent("error") = {}
    /\ Sent("end") = {}

\* -------------------------------------------------------------- git manager
\* (src/src/sst_tts_translator/git/manager.py)
\* Most changed files a `git status` output lists.
MaxChanges == 2

\* The exception asyncio.create_subprocess_exec raises when cwd does not
\* name a directory.
FileNotFoundError == [type |-> "FileNotFoundError"]

\* First line of `git status --porcelain -b`, without and with an upstream.
HeaderLocal == <<Lit("##"), Lit(" "), Lit("main")>>
HeaderTracking ==
    <<Lit("##"), Lit(" "), Lit("main"), Lit("..."), Lit("origin/main")>>
ChangeLine == <<Lit(" M"), Lit(" "), Lit("a.py")>>

\* The outputs of a successful `git status --porcelain -b`, as lines.
StatusOutputs ==
    {<<h>> \o [i \in 1..n |-> ChangeLine] :
        h \in {HeaderLocal, HeaderTracking}, n \in 0..MaxChanges}

CommitOutputs == {<<<<Lit("[main 1a2b3c4] "), Lit("message")>>>>}

ErrorOutputs == {<<<<Lit("fatal: not a git repository")>>>>, <<>>}

\* Exit codes of a git command that failed; -1 stands for a process whose
\* returncode is None.
FailureCodes == {1, 128, -1}

\* What _run_git can do for a command whose successful outputs are outs:
\* raise because the process cannot be started in repo_path, or return
\* (stdout, stderr, returncode).
RunOutcomes(exists, outs) ==
    IF ~exists
    THEN {[kind |-> "raise", error |-> FileNotFoundError]}
    ELSE {[kind |-> "exit", stdout |-> s, stderr |-> <<>>, returncode |-> 0] :
              s \in outs}
         \cup {[kind |-> "exit", stdout |-> <<>>, stderr |-> e,
                returncode |-> rc] : e \in ErrorOutputs, rc \in FailureCodes}

Run(args, outcome) == [args |-> args, outcome |-> outcome]

\* line.startswith("##")
StartsWithHashes(line) == line # <<>> /\ line[1] = Lit("##")

\* branch_info.split("...")[0] if "..." in branch_info else branch_info
BeforeDots(branch_info) ==
    IF \E i \in DOMAIN branch_info : branch_info[i] = Lit("...")
    THEN SubSeq(branch_info, 1,
                (CHOOSE i \in DOMAIN branch_info :
                    /\ branch_info[i] = Lit("...")
                    /\ \A j \in 1..(i - 1) : branch_info[j] # Lit("...")) - 1)
    ELSE branch_info

\* GitManager.status, given what _run_git returned.
status(o) ==
    IF o.returncode # 0
    THEN [branch |-> <<>>, clean |-> FALSE, output |-> o.stderr, error |-> TRUE]
    ELSE LET lines == o.stdout
             branch == IF lines # <<>> /\ StartsWithHashes(lines[1])
                       THEN BeforeDots(SubSeq(lines[1], 3, Len(lines[1])))
                       ELSE <<>>
             changes == SelectSeq(Tail(lines), LAMBDA l : l # <<>>)
         IN [branch |-> branch, clean |-> Len(changes) = 0,
             output |-> o.stdout]

CommitMessages == {"fix", "wip"}

\* GitManager.__init__
GitInit ==
    /\ CoreOff
    /\ WhisperOff
    /\ GenOff
    /\ WsOff
    /\ FactoryOff
    /\ repo_exists \in BOOLEAN
    /\ git_pc = "idle"
    /\ git_call = Nil
    /\ git_runs = <<>>
    /\ git_result = Nil
    /\ git_raised = Nil

\* A call of status() or commit(message) begins.
GitCall(c) ==
    /\ git_pc = "idle"
    /\ git_call' = c
    /\ git_pc' = (IF c.op = "commit" THEN "add" ELSE c.op)
    /\ git_runs' = <<>>
    /\ git_result' = Nil
    /\ git_raised' = Nil
    /\ UNCHANGED <<coreVars, notGit, repo_exists>>

\* status: `git status --porcelain -b` has run.
GitStatusRuns(o) ==
    /\ git_pc = "status"
    /\ o \in RunOutcomes(repo_exists, StatusOutputs)
    /\ git_runs' = Append(git_runs, Run(<<"status", "--porcelain", "-b">>, o))
    /\ IF o.kind = "raise"
       THEN /\ git_raised' = o.error
            /\ git_pc' = "raised"
            /\ UNCHANGED git_result
       ELSE /\ git_result' = status(o)
            /\ git_pc' = "returned"
            /\ UNCHANGED git_raised
    /\ UNCHANGED <<coreVars, notGit, repo_exists, git_call>>

DiffOutputs == {<<>>, <<<<Lit("diff --git a/a.py b/a.py")>>>>}

\* GitManager.diff, given what _run_git returned: a text.
diff(o) ==
    IF o.returncode # 0
    THEN [text |-> IF o.stderr # <<>> THEN o.stderr
                   ELSE <<<<Lit("Error getting diff")>>>>]
    ELSE [text |-> o.stdout]

\* diff: `git diff` or `git diff --staged` has run.
GitDiffRuns(o) ==
    /\ git_pc = "diff"
    /\ o \in RunOutcomes(repo_exists, DiffOutputs)
    /\ git_runs' = Append(git_runs,
                          Run(IF git_call.staged THEN <<"diff", "--staged">>
                              ELSE <<"diff">>, o))
    /\ IF o.kind = "raise"
       THEN /\ git_raised' = o.error
            /\ git_pc' = "raised"
            /\ UNCHANGED git_result
       ELSE /\ git_result' = diff(o)
            /\ git_pc' = "returned"
            /\ UNCHANGED git_raised
    /\ UNCHANGED <<coreVars, notGit, repo_exists, git_call>>

\* Staging taken to have succeeded whatever `git add` returned.
Staged_Always(returncode) == TRUE

\* commit: `if returncode != 0: return` after `git add -A`.
Staged(returncode) == returncode = 0

\* commit: `git add -A` has run.
GitAddRuns(o) ==
    /\ git_pc = "add"
    /\ o \in RunOutcomes(repo_exists, {<<>>})
    /\ git_runs' = Append(git_runs, Run(<<"add", "-A">>, o))
    /\ IF o.kind = "raise"
       THEN /\ git_raised' = o.error
            /\ git_pc' = "raised"
            /\ UNCHANGED git_result
       ELSE IF ~Staged(o.returncode)
       THEN /\ git_result' =
                  [success |-> FALSE,
                   error |-> <<<<Lit("Failed to stage changes: ")>>>>
                                 \o o.stderr]
            /\ git_pc' = "returned"
            /\ UNCHANGED git_raised
       ELSE /\ git_pc' = "commit"
            /\ UNCHANGED <<git_result, git_raised>>
    /\ UNCHANGED <<coreVars, notGit, repo_exists, git_call>>

\* commit: `git commit -m message` has run.
GitCommitRuns(o) ==
    /\ git_pc = "commit"
    /\ o \in RunOutcomes(repo_exists, CommitOutputs)
    /\ git_runs' = Append(git_runs,
                          Run(<<"commit", "-m", git_call.message>>, o))
    /\ IF o.kind = "raise"
       THEN /\ git_raised' = o.error
            /\ git_pc' = "raised"
            /\ UNCHANGED git_result
       ELSE /\ git_result' = IF o.returncode # 0
                             THEN [success |-> FALSE, error |-> o.stderr]
                             ELSE [success |-> TRUE, output |-> o.stdout]
            /\ git_pc' = "returned"
            /\ UNCHANGED git_raised
    /\ UNCHANGED <<coreVars, notGit, repo_exists, git_call>>

\* The caller has its result, or the exception.
GitReturn ==
    /\ git_pc \in {"returned", "raised"}
    /\ git_pc' = "idle"
    /\ UNCHANGED <<coreVars, notGit, repo_exists, git_call, git_runs,
                   git_result, git_raised>>

AllRunOutcomes ==
    UNION {RunOutcomes(e, outs) :
              e \in BOOLEAN,
              outs \in {StatusOutputs, CommitOutputs, DiffOutputs, {<<>>}}}

GitNext ==
    \/ GitCall([op |-> "status"])
    \/ \E m \in CommitMessages : GitCall([op |-> "commit", message |-> m])
    \/ \E s \in BOOLEAN : GitCall([op |-> "diff", staged |-> s])
    \/ \E o \in AllRunOutcomes : GitStatusRuns(o)
    \/ \E o \in AllRunOutcomes : GitDiffRuns(o)
    \/ \E o \in AllRunOutcomes : GitAddRuns(o)
    \/ \E o \in AllRunOutcomes : GitCommitRuns(o)
    \/ GitReturn

GitSpec == GitInit /\ [][GitNext]_vars

\* The outcome of the last git command the call in progress has run.
LastRun == git_runs[Len(git_runs)].outcome

\* C23: status never raises when the repository cannot be used: whenever the
\* git command cannot succeed (non-zero exit, or a repository path that does
\* not exist so that the process cannot be started in it) it returns a result
\* with error = True, clean = False and an empty branch.
C23_StatusReportsUnusableRepository ==
    (git_call # Nil /\ git_call.op = "status" /\ git_runs # <<>>
     /\ (LastRun.kind = "raise" \/ LastRun.returncode # 0))
    => /\ git_raised = Nil
       /\ git_result # Nil
       /\ "error" \in DOMAIN git_result
       /\ git_result.error = TRUE
       /\ git_result.clean = FALSE
       /\ git_result.branch = <<>>

\* The git commands of the call in progress, in the order they were run.
Commands == [i \in DOMAIN git_runs |-> git_runs[i].args[1]]

Char(ch, up) == [ch |-> ch, up |-> up]

whisper == <<"w", "h", "i", "s", "p", "e", "r">>
deepgram == <<"d", "e", "e", "p", "g", "r", "a", "m">>
piper == <<"p", "i", "p", "e", "r">>
elevenlabs == <<"e", "l", "e", "v", "e", "n", "l", "a", "b", "s">>
unknown == <<"u", "n", "k", "n", "o", "w", "n">>

Words == {whisper, deepgram, piper, elevenlabs, unknown, <<>>}

Casings == {"lower", "UPPER", "Capitalised", "miXed"}

\* The word w written in a casing.
Cased(w, casing) ==
    [i \in DOMAIN w |->
        Char(w[i], CASE casing = "lower" -> FALSE
                     [] casing = "UPPER" -> TRUE
                     [] casing = "Capitalised" -> i = 1
                     [] OTHER -> i = 3)]

\* The string literal w of the source.
Literal(w) == Cased(w, "lower")

\* The provider names handed to the factories: every word in every casing,
\* and with a leading blank.
ProviderNames ==
    {Cased(w, c) : w \in Words, c \in Casings}
    \cup {<<Char(" ", FALSE)>> \o Cased(w, "lower") : w \in Words}

\* The api_key arguments: None, the empty string, a key.
ApiKeys == {None, "", "test_key"}

\* str.lower that leaves the string as it is.
lower_Identity(s) == s

\* str.lower
lower(s) == [i \in DOMAIN s |-> Char(s[i].ch, FALSE)]

Provider(class, api_key) ==
    [kind |-> "provider", class |-> class, api_key |-> api_key]

ValueError(message) ==
    [kind |-> "raise", type |-> "ValueError", message |-> message]

\* create_stt_provider
create_stt_provider(provider, api_key) ==
    IF lower(provider) = Literal(whisper) THEN Provider("WhisperSTT", None)
    ELSE IF lower(provider) = Literal(deepgram)
    THEN IF api_key \in {None, ""}
         THEN ValueError(<<Lit("API key required for Deepgram")>>)
         ELSE Provider("DeepgramSTT", api_key)
    ELSE ValueError(<<Lit("Unknown STT provider: "), provider>>)

\* create_tts_provider
create_tts_provider(provider, api_key) ==
    IF lower(provider) = Literal(piper) THEN Provider("PiperTTS", None)
    ELSE IF lower(provider) = Literal(elevenlabs)
    THEN IF api_key \in {None, ""}
         THEN ValueError(<<Lit("API key required for ElevenLabs")>>)
         ELSE Provider("ElevenLabsTTS", api_key)
    ELSE ValueError(<<Lit("Unknown TTS provider: "), provider>>)

\* A factory is about to be called.
FactoryInit ==
    /\ CoreOff
    /\ WhisperOff
    /\ GenOff
    /\ WsOff
    /\ GitOff
    /\ factory_call \in [factory : {"stt", "tts"}, provider : ProviderNames,
                         api_key : ApiKeys]
    /\ factory_result = Nil

CreateSttProvider ==
    /\ factory_result = Nil
    /\ factory_call.factory = "stt"
    /\ factory_result' =
          create_stt_provider(factory_call.provider, factory_call.api_key)
    /\ UNCHANGED <<coreVars, notFactory, factory_call>>

CreateTtsProvider ==
    /\ factory_result = Nil
    /\ factory_call.factory = "tts"
    /\ factory_result' =
          create_tts_provider(factory_call.provider, factory_call.api_key)
    /\ UNCHANGED <<coreVars, notFactory, factory_call>>

FactoryNext == CreateSttProvider \/ CreateTtsProvider

FactorySpec == FactoryInit /\ [][FactoryNext]_vars

\* The name spells the word w, whatever the case of its letters.
SameWord(name, w) ==
    /\ Len(name) = Len(w)
    /\ \A i \in DOMAIN name : name[i].ch = w[i]

RaisesValueError(r, first) ==
    /\ r.kind = "raise"
    /\ r.type = "ValueError"
    /\ r.message[1] = Lit(first)

\* C24: the provider factories match the name whatever its case; the
\* key-free provider is returned for its name, the key-requiring provider is
\* returned only with a non-empty api key and otherwise ValueError "API key
\* required ..." is raised, and every other name raises ValueError
\* "Unknown ... provider"; a failing call returns no provider.
C24_FactoriesMatchNameAndRequireKey ==
    factory_result # Nil =>
        LET c == factory_call
            r == factory_result
            isStt == c.factory = "stt"
            free == IF isStt THEN whisper ELSE piper
            keyed == IF isStt THEN deepgram ELSE elevenlabs
        IN  /\ SameWord(c.provider, free) =>
                /\ r.kind = "provider"
                /\ r.class = (IF isStt THEN "WhisperSTT" ELSE "PiperTTS")
            /\ SameWord(c.provider, keyed) /\ c.api_key \in {None, ""} =>
                RaisesValueError(r, IF isStt
                                    THEN "API key required for Deepgram"
                                    ELSE "API key required for ElevenLabs")
            /\ SameWord(c.provider, keyed) /\ c.api_key \notin {None, ""} =>
                /\ r.kind = "provider"
                /\ r.class = (IF isStt THEN "DeepgramSTT" ELSE "ElevenLabsTTS")
                /\ r.api_key = c.api_key
            /\ ~SameWord(c.provider, free) /\ ~SameWord(c.provider, keyed) =>
                /\ RaisesValueError(r, IF isStt THEN "Unknown STT provider: "
                                       ELSE "Unknown TTS provider: ")
                /\ r.message[2] = c.provider

\* An upper-case key-requiring name with an empty key was refused.
C24_Witness ==
    /\ factory_call # Nil
    /\ factory_result # Nil
    /\ factory_call.provider = Cased(elevenlabs, "UPPER")
    /\ factory_call.api_key = ""
    /\ factory_result.kind = "raise"

\* ------------------------------------------------------------- WhisperSTT
\* (src/src/sst_tts_translator/stt/provider.py)
\* Calls started on the instance.
MaxCalls == 3

\* The asyncio tasks that use the instance.
WhisperTasks == {1, 2}

WhisperOps == {"transcribe_file", "transcribe_stream"}

\* A task that is in no call.
Idle == [op |-> "idle", frame |-> "idle", pc |-> "idle", audio |-> FALSE]

\* whisper.load_model(model_size): the n-th model object made.
Model(n) == [model_size |-> "base", object |-> n]

\* `if self._model is None` of _load_model: the model has to be loaded.
MustLoad(model, ts) == model = Nil

\* WhisperSTT.__init__
WhisperInit ==
    /\ CoreOff
    /\ GenOff
    /\ WsOff
    /\ GitOff
    /\ FactoryOff
    /\ _model = Nil
    /\ loads = 0
    /\ whisper_tasks = [t \in WhisperTasks |-> Idle]
    /\ whisper_calls = 0

\* A task calls transcribe_file(audio_data) or transcribe_stream(stream); the
\* body runs up to `await self._load_model()`.
WhisperCall(t, op, audio) ==
    /\ whisper_tasks[t].pc = "idle"
    /\ whisper_calls < MaxCalls
    /\ whisper_calls' = whisper_calls + 1
    /\ whisper_tasks' = [whisper_tasks EXCEPT ![t] =
          [op |-> op, frame |-> op, pc |-> "_load_model", audio |-> audio]]
    /\ UNCHANGED <<coreVars, notWhisper, _model, loads>>

\* _load_model up to its await: the test of self._model, and the load handed
\* to the thread pool when the model is missing.
LoadModelEnter(t) ==
    /\ whisper_tasks[t].pc = "_load_model"
    /\ whisper_tasks' = [whisper_tasks EXCEPT ![t].pc =
          IF MustLoad(_model, whisper_tasks) THEN "run_in_executor"
          ELSE "loaded"]
    /\ UNCHANGED <<coreVars, notWhisper, _model, loads, whisper_calls>>

\* whisper.load_model returned in the thread pool; the task resumes and
\* assigns self._model.
LoadModelCompletes(t) ==
    /\ whisper_tasks[t].pc = "run_in_executor"
    /\ loads' = loads + 1
    /\ _model' = Model(loads + 1)
    /\ whisper_tasks' = [whisper_tasks EXCEPT ![t].pc = "loaded"]
    /\ UNCHANGED <<coreVars, notWhisper, whisper_calls>>

\* whisper.load_model raised: the call raises, self._model stays as it was.
LoadModelFails(t) ==
    /\ whisper_tasks[t].pc = "run_in_executor"
    /\ whisper_tasks' = [whisper_tasks EXCEPT ![t].pc = "raised"]
    /\ UNCHANGED <<coreVars, notWhisper, _model, loads, whisper_calls>>

\* transcribe_stream after _load_model: the stream is buffered to its end;
\* with audio transcribe_file is called, without the generator ends.
StreamBuffered(t) ==
    /\ whisper_tasks[t].pc = "loaded"
    /\ whisper_tasks[t].frame = "transcribe_stream"
    /\ whisper_tasks' = [whisper_tasks EXCEPT ![t] =
          IF @.audio
          THEN [@ EXCEPT !.frame = "transcribe_file", !.pc = "_load_model"]
          ELSE [@ EXCEPT !.pc = "returned"]]
    /\ UNCHANGED <<coreVars, notWhisper, _model, loads, whisper_calls>>

\* transcribe_file after _load_model: self._model.transcribe in the thread
\* pool, then the text is returned.
FileTranscribed(t, ok) ==
    /\ whisper_tasks[t].pc = "loaded"
    /\ whisper_tasks[t].frame = "transcribe_file"
    /\ whisper_tasks' = [whisper_tasks EXCEPT ![t].pc =
          IF ok THEN "returned" ELSE "raised"]
    /\ UNCHANGED <<coreVars, notWhisper, _model, loads, whisper_calls>>

\* The call is over; the task may make another.
WhisperReturn(t) ==
    /\ whisper_tasks[t].pc \in {"returned", "raised"}
    /\ whisper_tasks' = [whisper_tasks EXCEPT ![t] = Idle]
    /\ UNCHANGED <<coreVars, notWhisper, _model, loads, whisper_calls>>

WhisperNext ==
    \E t \in WhisperTasks :
        \/ \E op \in WhisperOps, audio \in BOOLEAN : WhisperCall(t, op, audio)
        \/ LoadModelEnter(t)
        \/ LoadModelCompletes(t)
        \/ LoadModelFails(t)
        \/ StreamBuffered(t)
        \/ \E ok \in BOOLEAN : FileTranscribed(t, ok)
        \/ WhisperReturn(t)

WhisperSpec == WhisperInit /\ [][WhisperNext]_vars

\* C29: the Whisper model of one instance is loaded at most once, also when
\* two calls reach _load_model before the first load has completed.
C29_ModelLoadedAtMostOnce == loads <= 1

\* Two calls are in _load_model's load at the same time.
C29_TwoLoadsInFlight ==
    \A t \in WhisperTasks :
        whisper_tasks # <<>> /\ whisper_tasks[t].pc = "run_in_executor"

\* A load is started only while self._model is None.
LoadStartedOnlyWhenMissing ==
    [][\A t \in WhisperTasks :
          (whisper_tasks # <<>> /\ whisper_tasks'[t].pc = "run_in_executor"
             /\ whisper_tasks[t].pc # "run_in_executor") => _model = Nil]_vars

====
